---- MODULE Spec2Model ----
(***************************************************************************)
(* Safari history knowledge graph: extraction of Safari history.db files   *)
(* (src/src/extractor/safari.rs) and their ingestion into the canonical    *)
(* store (src/src/db/operations.rs, src/src/db/connection.rs), driven by   *)
(* the commands of src/src/main.rs.                                        *)
(*                                                                         *)
(* The canonical store is the SQLite database behind DatabaseConnection.   *)
(* Its three tables are sequences of rows in insertion order.  The file    *)
(* database/schema.sql that declares them is not part of the sources; the  *)
(* declared constraints (primary keys, UNIQUE, REFERENCES) are taken from  *)
(* the documented canonical schema and are isolated in the *Constraint*    *)
(* definitions below.                                                      *)
(***************************************************************************)
EXTENDS Integers, Sequences, FiniteSets, TLC

\* ------------------------------------------------------------------------
\* Bounds of the model
\* ------------------------------------------------------------------------
\* number of extraction batches built in one behaviour
MaxBatches == 2
\* number of insert_history_data calls in one behaviour
MaxIngest == 2
\* number of SQL statements of one insert_history_data call that the
\* environment lets fail (I/O error, busy database, ...)
MaxFaults == 1
\* number of extract_history calls in one behaviour
MaxExtract == 1
\* number of threads that run commands
NumProcs == 2
\* number of commands invoked in one behaviour of the threads
MaxCmds == 2
\* number of file paths passed to one process_history_files command
MaxFiles == 2
\* native timestamps of -MaxTime..MaxTime are converted by mac_to_utc
MaxTime == 50
\* greatest limit and greatest offset of a search
MaxPage == 1

\* ------------------------------------------------------------------------
\* Values
\* ------------------------------------------------------------------------
\* Option::None / SQL NULL
None == "None"

\* const MAC_TO_UNIX_EPOCH_OFFSET: i64 = 978307200
MAC_TO_UNIX_EPOCH_OFFSET == 978307200

\* the tables verify_safari_schema asks for, in the order of its array
RequiredTables == <<"history_items", "history_visits">>

\* a history_items row of a Safari file
Item(id, url, domain, count, first, last) ==
    [id |-> id, url |-> url, title |-> None, domain |-> domain,
     visit_count |-> count, visit_time |-> first, last_visited_time |-> last]

\* a history_visits row of a Safari file
VRow(id, item, t) == [id |-> id, history_item |-> item, visit_time |-> t]

\* The source files the environment offers, by path.  Times are native
\* (macOS epoch) seconds.
\*   plain    : two urls, one visit each
\*   dupvisit : one url (seen earlier than in plain), the same visit twice
\*   dupurl   : the same url string in two rows
\*   dangling : one url with two visits; one more visit references a
\*              history_items id that does not exist, another one a row
\*              whose url is NULL
\*   novisits : the history_visits table is missing
\*   noitems  : the history_items table is missing
\*   nocolumn : both tables are there, history_items has no column title
\* lacks is the set of <<table, column>> pairs, among the columns the
\* queries of the extractor select, that the tables of the file do not have.
Files ==
    [plain |->
       [tables |-> {"history_items", "history_visits"}, lacks |-> {},
        items  |-> << Item(1, "u1", "example.com", 1, 7200, 7200),
                      Item(2, "u2", "test.org", 1, 3600, 3600) >>,
        visits |-> << VRow(1, 2, 3600), VRow(2, 1, 7200) >>],
     dupvisit |->
       [tables |-> {"history_items", "history_visits"}, lacks |-> {},
        items  |-> << Item(1, "u1", "example.com", 2, 3600, 3600) >>,
        visits |-> << VRow(1, 1, 3600), VRow(2, 1, 3600) >>],
     dupurl |->
       [tables |-> {"history_items", "history_visits"}, lacks |-> {},
        items  |-> << Item(1, "u1", "example.com", 1, 90000, 90000),
                      Item(2, "u1", "example.com", 1, 3600, 3600) >>,
        visits |-> << VRow(1, 1, 90000), VRow(2, 2, 3600) >>],
     dangling |->
       [tables |-> {"history_items", "history_visits"}, lacks |-> {},
        items  |-> << Item(1, "u2", "test.org", 2, 0, 3600),
                      Item(2, None, "test.org", 1, 1800, 1800) >>,
        visits |-> << VRow(1, 1, 3600), VRow(2, 7, 0), VRow(3, 2, 1800),
                      VRow(4, 1, 1800) >>],
     novisits |->
       [tables |-> {"history_items"}, lacks |-> {},
        items  |-> << Item(1, "u1", "example.com", 1, 3600, 3600) >>,
        visits |-> << >>],
     noitems |->
       [tables |-> {"history_visits"}, lacks |-> {},
        items  |-> << >>,
        visits |-> << VRow(1, 1, 3600) >>],
     nocolumn |->
       [tables |-> {"history_items", "history_visits"},
        lacks  |-> {<<"history_items", "title">>},
        items  |-> << Item(1, "u1", "example.com", 1, 3600, 3600) >>,
        visits |-> << VRow(1, 1, 3600) >>]]

\* paths of the source files
Paths == DOMAIN Files

\* device names a caller may pass
Devices == {None}

VARIABLES
    db,         \* committed canonical store: [url, visit, metadata]
    batches,    \* RawHistoryData values built so far (in memory)
    nextId,     \* next fresh Uuid::new_v4()
    clean,      \* batches whose ingestion committed with no failed statement
    ingested,   \* batches insert_history_data was called with
    nIngest,    \* number of insert_history_data calls so far
    nExtract,   \* number of extract_history calls so far
    last,       \* the last operation: its inputs and what it returned
    proc,       \* per thread: the command it runs and where it is in it
    state_guard,\* owner of AppState.db_connection (Mutex), Free if none
    conn_guard, \* owner of DatabaseConnection.connection (Mutex)
    tx          \* << working state >> of the open transaction, << >> if none

vars == <<db, batches, nextId, clean, ingested, nIngest, nExtract, last,
          proc, state_guard, conn_guard, tx>>

\* the variables of the threads
threadVars == <<proc, state_guard, conn_guard, tx>>

Procs == 1..NumProcs

\* no thread holds the mutex
Free == 0

\* ------------------------------------------------------------------------
\* Sequence helpers
\* ------------------------------------------------------------------------
Max(a, b) == IF a >= b THEN a ELSE b

Range(s) == {s[i] : i \in 1..Len(s)}

\* ------------------------------------------------------------------------
\* Extraction (src/src/extractor/safari.rs, src/src/extractor/models.rs)
\* ------------------------------------------------------------------------
\* RawHistoryData::new: an empty container for one source file.  The
\* extraction_time (Utc::now()) plays no part in any operation and is left
\* out.
RawHistoryData_new(path, device) ==
    [source |-> [file_path |-> path, device_name |-> device],
     urls |-> << >>, visits |-> << >>, warnings |-> << >>]

\* RawHistoryData::add_warning
add_warning(data, w) == [data EXCEPT !.warnings = Append(@, w)]

\* rusqlite's FromSql for bool: only an INTEGER column value converts
\* (non-zero is true); a TEXT or NULL value is an InvalidColumnType error.
\* A column value is [type, val] with type "integer", "text" or "null".
FromSqlBool(v) ==
    IF v.type = "integer" THEN [ok |-> TRUE, val |-> (v.val # 0)]
    ELSE [ok |-> FALSE, val |-> FALSE]

\* The probe of verify_safari_schema for one table:
\*   SELECT name FROM sqlite_master WHERE type='table' AND name='<table>'
\* read as bool, with unwrap_or(false).  The query yields the table's name
\* (a TEXT value) when the table exists and no row otherwise.
table_exists(file, table) ==
    IF table \in file.tables
    THEN LET b == FromSqlBool([type |-> "text", val |-> table])
         IN IF b.ok THEN b.val ELSE FALSE
    ELSE FALSE

\* verify_safari_schema, with the probes it made (in order)
RECURSIVE verify_tables(_, _, _)
verify_tables(file, i, log) ==
    IF i > Len(RequiredTables) THEN [ok |-> TRUE, missing |-> None, log |-> log]
    ELSE LET t == RequiredTables[i]
             l == Append(log, <<"probe", t>>)
         IN IF ~ table_exists(file, t)
            THEN [ok |-> FALSE, missing |-> t, log |-> l]
            ELSE verify_tables(file, i + 1, l)

verify_safari_schema(file) == verify_tables(file, 1, << >>)

\* Utc.timestamp_opt(unix, 0) is Single for every instant chrono can
\* represent (about +-8.2 * 10^12 seconds), which covers every integer of
\* the model.
timestamp_opt_single(unix) == unix \in Int

\* variant: the offset is subtracted
mac_to_utc_subtract(mac_timestamp) ==
    LET unix_timestamp == mac_timestamp - MAC_TO_UNIX_EPOCH_OFFSET
    IN IF timestamp_opt_single(unix_timestamp)
       THEN [ok |-> TRUE, ts |-> unix_timestamp]
       ELSE [ok |-> FALSE, ts |-> 0]

\* mac_to_utc: native (macOS epoch) seconds to a UTC instant, kept as its
\* Unix timestamp
mac_to_utc(mac_timestamp) ==
    LET unix_timestamp == mac_timestamp + MAC_TO_UNIX_EPOCH_OFFSET
    IN IF timestamp_opt_single(unix_timestamp)
       THEN [ok |-> TRUE, ts |-> unix_timestamp]
       ELSE [ok |-> FALSE, ts |-> 0]

\* mac_to_utc at the full width of i64.  A 64-bit value is the sequence of
\* its four 16-bit limbs in two's complement, the most significant first.
Limb == 65536

\* the i64 of an integer n with -2^31 < n < 2^31
RECURSIVE FromInt(_)

\* wrapping negation
Neg64(x) ==
    LET c4 == (Limb - 1 - x[4]) + 1
        c3 == (Limb - 1 - x[3]) + (c4 \div Limb)
        c2 == (Limb - 1 - x[2]) + (c3 \div Limb)
        c1 == (Limb - 1 - x[1]) + (c2 \div Limb)
    IN << c1 % Limb, c2 % Limb, c3 % Limb, c4 % Limb >>

FromInt(n) ==
    IF n >= 0 THEN << 0, 0, n \div Limb, n % Limb >> ELSE Neg64(FromInt(-n))

\* the sign bit
IsNeg64(x) == x[1] >= Limb \div 2

\* x.wrapping_add(y)
WrappingAdd64(x, y) ==
    LET s4 == x[4] + y[4]
        s3 == x[3] + y[3] + (s4 \div Limb)
        s2 == x[2] + y[2] + (s3 \div Limb)
        s1 == x[1] + y[1] + (s2 \div Limb)
    IN << s1 % Limb, s2 % Limb, s3 % Limb, s4 % Limb >>

\* x + y does not fit an i64
AddOverflows64(x, y) ==
    /\ IsNeg64(x) = IsNeg64(y)
    /\ IsNeg64(WrappingAdd64(x, y)) # IsNeg64(x)

\* x < y as signed values
Less64(x, y) ==
    IF IsNeg64(x) # IsNeg64(y) THEN IsNeg64(x)
    ELSE \E k \in 1..4 :
            /\ x[k] < y[k]
            /\ \A j \in 1..(k - 1) : x[j] = y[j]

\* i64::MAX and i64::MIN
I64_MAX == << 32767, 65535, 65535, 65535 >>
I64_MIN == << 32768, 0, 0, 0 >>

\* the Unix timestamps of the last and of the first instant that chrono's
\* DateTime<Utc> represents: 8210266876799 and -8334601228800
ChronoMaxSecs == << 0, 1911, 39434, 27519 >>
ChronoMinSecs == << 65535, 63595, 29453, 60928 >>

\* Utc.timestamp_opt(unix, 0) is Single
timestamp_opt_single64(unix) ==
    /\ ~ Less64(unix, ChronoMinSecs)
    /\ ~ Less64(ChronoMaxSecs, unix)

\* the rest of mac_to_utc, unix_timestamp being the sum
mac_to_utc_match(unix_timestamp) ==
    IF timestamp_opt_single64(unix_timestamp)
    THEN [outcome |-> "ok", ts |-> unix_timestamp]
    ELSE [outcome |-> "parse_error", ts |-> FromInt(0)]

\* mac_to_utc on an i64.  mac_timestamp + MAC_TO_UNIX_EPOCH_OFFSET panics
\* on overflow in a build with overflow checks (the debug profile) and
\* wraps in a build without them (the release profile).
mac_to_utc_i64(mac_timestamp, overflow_checks) ==
    IF /\ overflow_checks
       /\ AddOverflows64(mac_timestamp, FromInt(MAC_TO_UNIX_EPOCH_OFFSET))
    THEN [outcome |-> "panic", ts |-> FromInt(0)]
    ELSE mac_to_utc_match(
            WrappingAdd64(mac_timestamp, FromInt(MAC_TO_UNIX_EPOCH_OFFSET)))

\* the columns of one row of the query of extract_urls, in SELECT order:
\*   id, url, title, domain, visit_count, first_visit, last_visit
UrlRowColumns(item) ==
    << item.id, item.url, item.title, item.domain, item.visit_count,
       item.visit_time, item.last_visited_time >>

\* row.get(i) (0-based) into a String fails on NULL.  The integer columns
\* of the model's files are never NULL.
GetOk(cols, i) == cols[i + 1] # None

\* variant: a NULL url or domain is taken as a value instead of failing
process_url_row_lenient(item, id) ==
    [ok |-> TRUE,
     safari_id |-> item.id,
     url |-> [id |-> id, url |-> item.url, title |-> item.title,
              domain |-> item.domain,
              first_seen |-> mac_to_utc(item.visit_count).ts,
              last_seen |-> mac_to_utc(item.visit_time).ts]]

\* process_url_row: the canonical url built from one row, under the fresh
\* uuid id.  The two timestamps are read from columns 4 and 5.
process_url_row(item, id) ==
    LET cols == UrlRowColumns(item)
    IN IF ~ (GetOk(cols, 1) /\ GetOk(cols, 3))
       THEN [ok |-> FALSE]
       ELSE LET first_seen == mac_to_utc(cols[5])
                last_seen  == mac_to_utc(cols[6])
            IN IF ~ (first_seen.ok /\ last_seen.ok)
               THEN [ok |-> FALSE]
               ELSE [ok |-> TRUE,
                     safari_id |-> cols[1],
                     url |-> [id |-> id, url |-> cols[2], title |-> cols[3],
                              domain |-> cols[4],
                              first_seen |-> first_seen.ts,
                              last_seen |-> last_seen.ts]]

\* extract_urls from row i on: st = [ok, data, map, next, log]; map is the
\* set of <<safari id, uuid>> pairs of url_id_map (a later pair for the same
\* safari id replaces the earlier one, as HashMap::insert does)
RECURSIVE extract_url_rows(_, _, _)
extract_url_rows(items, i, st) ==
    IF i > Len(items) THEN st
    ELSE LET r == process_url_row(items[i], st.next)
             l == Append(st.log, <<"row", "history_items">>)
         IN IF r.ok
            THEN extract_url_rows(items, i + 1,
                   [ok   |-> TRUE,
                    data |-> [st.data EXCEPT !.urls = Append(@, r.url)],
                    map  |-> {p \in st.map : p[1] # r.safari_id}
                               \cup {<<r.safari_id, st.next>>},
                    next |-> st.next + 1,
                    log  |-> l])
            ELSE extract_url_rows(items, i + 1,
                   [st EXCEPT !.data = add_warning(@, <<"Failed to process URL", i>>),
                              !.log = l])

\* conn.prepare of a query FROM table succeeds: the table and the columns
\* the query selects are there
PrepareQueryOk(file, table) ==
    /\ table \in file.tables
    /\ \A p \in file.lacks : p[1] # table

\* extract_urls: when preparing the query fails, the error leaves through ?
extract_urls(file, data, next, log) ==
    IF ~ PrepareQueryOk(file, "history_items")
    THEN [ok |-> FALSE, data |-> data, map |-> {}, next |-> next, log |-> log]
    ELSE extract_url_rows(file.items, 1,
           [ok |-> TRUE, data |-> data, map |-> {}, next |-> next, log |-> log])

\* ORDER BY visit_time DESC of the query of extract_visits (rows of equal
\* time stay in table order)
RECURSIVE InsertDesc(_, _)
InsertDesc(sorted, r) ==
    IF sorted = << >> THEN << r >>
    ELSE IF Head(sorted).visit_time >= r.visit_time
         THEN << Head(sorted) >> \o InsertDesc(Tail(sorted), r)
         ELSE << r >> \o sorted

RECURSIVE OrderByVisitTimeDesc(_)
OrderByVisitTimeDesc(rows) ==
    IF rows = << >> THEN << >>
    ELSE InsertDesc(OrderByVisitTimeDesc(SubSeq(rows, 1, Len(rows) - 1)),
                    rows[Len(rows)])

\* url_id_map.get(&safari_url_id)
MapHas(map, k) == \E p \in map : p[1] = k
MapGet(map, k) == (CHOOSE p \in map : p[1] = k)[2]

\* variant: a visit whose url is not in the map is kept, under the nil uuid
process_visit_row_nil(row, source_file, map, data, id) ==
    LET visited_at == mac_to_utc(row.visit_time)
    IN IF ~ visited_at.ok THEN [ok |-> FALSE]
       ELSE [ok |-> TRUE,
             visit |-> [id |-> id,
                        url_id |-> IF MapHas(map, row.history_item)
                                   THEN MapGet(map, row.history_item) ELSE 0,
                        visited_at |-> visited_at.ts,
                        visit_count |-> 1,
                        source_file |-> source_file,
                        device_name |-> data.source.device_name,
                        duration_sec |-> None]]

\* process_visit_row: the canonical visit built from one row
process_visit_row(row, source_file, map, data, id) ==
    LET visited_at == mac_to_utc(row.visit_time)
    IN IF ~ visited_at.ok THEN [ok |-> FALSE]
       ELSE IF ~ MapHas(map, row.history_item) THEN [ok |-> FALSE]
       ELSE [ok |-> TRUE,
             visit |-> [id |-> id,
                        url_id |-> MapGet(map, row.history_item),
                        visited_at |-> visited_at.ts,
                        visit_count |-> 1,
                        source_file |-> source_file,
                        device_name |-> data.source.device_name,
                        duration_sec |-> None]]

\* extract_visits from row i on: st = [ok, data, next, log]
RECURSIVE extract_visit_rows(_, _, _, _)
extract_visit_rows(rows, i, map, st) ==
    IF i > Len(rows) THEN st
    ELSE LET r == process_visit_row(rows[i], st.data.source.file_path, map,
                                    st.data, st.next)
             l == Append(st.log, <<"row", "history_visits">>)
         IN IF r.ok
            THEN extract_visit_rows(rows, i + 1, map,
                   [ok   |-> TRUE,
                    data |-> [st.data EXCEPT !.visits = Append(@, r.visit)],
                    next |-> st.next + 1,
                    log  |-> l])
            ELSE extract_visit_rows(rows, i + 1, map,
                   [st EXCEPT !.data = add_warning(@, <<"Failed to process visit", i>>),
                              !.log = l])

\* extract_visits: when preparing the query fails, the error leaves
\* through ?
extract_visits(file, data, map, next, log) ==
    IF ~ PrepareQueryOk(file, "history_visits")
    THEN [ok |-> FALSE, data |-> data, next |-> next, log |-> log]
    ELSE extract_visit_rows(OrderByVisitTimeDesc(file.visits), 1, map,
           [ok |-> TRUE, data |-> data, next |-> next, log |-> log])

\* The end of extract_history: r is what extract_urls or extract_visits
\* returned.  A failure leaves through `?` as ExtractionError::Database,
\* otherwise Ok(data).  err is the ExtractionError variant; data is
\* << batch >> for Ok(batch) and << >> for Err.
extract_result(r) ==
    IF ~ r.ok
    THEN [ok |-> FALSE, err |-> "Database", data |-> << >>,
          next |-> r.next, log |-> r.log]
    ELSE [ok |-> TRUE, err |-> None, data |-> << r.data >>,
          next |-> r.next, log |-> r.log]

\* extract_visits(&conn, &mut data, &url_id_map)? after extract_urls
\* returned u: not reached when extract_urls failed
extract_visits_after(file, u) ==
    IF ~ u.ok THEN u
    ELSE extract_visits(file, u.data, u.map, u.next, u.log)

\* The part of extract_history after the schema check: extract_urls, then
\* extract_visits with the url_id_map.
extract_rows(file, path, device, next, log) ==
    extract_result(
        extract_visits_after(file,
            extract_urls(file, RawHistoryData_new(path, device), next, log)))

\* variant: the rows are read before the schema is verified
extract_history_rows_first(file, path, device, next) ==
    LET r == extract_rows(file, path, device, next, << >>)
        s == verify_tables(file, 1, r.log)
    IN IF ~ s.ok
       THEN [ok |-> FALSE, err |-> "UnsupportedSchema", data |-> << >>,
             next |-> r.next, log |-> s.log]
       ELSE [r EXCEPT !.log = s.log]

\* extract_history: Connection::open, verify_safari_schema, then the rows.
\* Every path of the model can be opened.
extract_history(file, path, device, next) ==
    LET s == verify_safari_schema(file)
    IN IF ~ s.ok
       THEN [ok |-> FALSE, err |-> "UnsupportedSchema", data |-> << >>,
             next |-> next, log |-> s.log]
       ELSE extract_rows(file, path, device, next, s.log)

\* device_names.and_then(|names| names.get(i).cloned()) for the 1-based
\* position i: devices is << >> for None and << names >> for Some(names)
DeviceAt(devices, i) ==
    IF devices = << >> THEN None
    ELSE IF i <= Len(devices[1]) THEN devices[1][i]
    ELSE None

\* variant: the device name is taken at the number of successful
\* extractions so far instead of the position of the path
parse_step_device_by_count(paths, devices, i, acc) ==
    LET device == DeviceAt(devices, Len(acc.successful) + 1)
        r == extract_history(Files[paths[i]], paths[i], device, acc.next)
    IN [successful |-> acc.successful \o r.data,
        failed |-> IF r.ok THEN acc.failed
                   ELSE Append(acc.failed, [path |-> paths[i], error |-> r.err]),
        next |-> r.next,
        calls |-> Append(acc.calls, << paths[i], device >>)]

\* One iteration of the loop of parse_history_db: the i-th path is
\* extracted with the i-th device name and goes to successful or to failed.
\* calls records the arguments of the extract_history calls.
parse_step(paths, devices, i, acc) ==
    LET device == DeviceAt(devices, i)
        r == extract_history(Files[paths[i]], paths[i], device, acc.next)
    IN [successful |-> acc.successful \o r.data,
        failed |-> IF r.ok THEN acc.failed
                   ELSE Append(acc.failed, [path |-> paths[i], error |-> r.err]),
        next |-> r.next,
        calls |-> Append(acc.calls, << paths[i], device >>)]

RECURSIVE parse_loop(_, _, _, _)
parse_loop(paths, devices, i, acc) ==
    IF i > Len(paths) THEN acc
    ELSE parse_loop(paths, devices, i + 1, parse_step(paths, devices, i, acc))

\* parse_history_db(file_paths, device_names)
parse_history_db(paths, devices, next) ==
    parse_loop(paths, devices, 1,
               [successful |-> << >>, failed |-> << >>, next |-> next,
                calls |-> << >>])

\* ------------------------------------------------------------------------
\* The canonical store (src/src/db)
\* ------------------------------------------------------------------------
EmptyDb == [url |-> << >>, visit |-> << >>, metadata |-> << >>]

\* variant: the connection is opened without the foreign_keys pragma
foreign_keys_off == FALSE

\* DatabaseConnection::new: PRAGMA foreign_keys = ON
foreign_keys == TRUE

\* url(id PRIMARY KEY, url UNIQUE, ...)
UrlConstraint(d, row) ==
    \A r \in Range(d.url) : r.id # row.id /\ r.url # row.url

\* a REFERENCES url(id) column, enforced when foreign_keys is on
ReferencesUrl(d, url_id) ==
    foreign_keys => \E r \in Range(d.url) : r.id = url_id

\* visit(id PRIMARY KEY, url_id REFERENCES url(id), ...)
VisitConstraint(d, row) ==
    /\ \A r \in Range(d.visit) : r.id # row.id
    /\ ReferencesUrl(d, row.url_id)

\* metadata(url_id UNIQUE REFERENCES url(id), ...)
MetadataConstraint(d, row) ==
    /\ \A r \in Range(d.metadata) : r.url_id # row.url_id
    /\ ReferencesUrl(d, row.url_id)

\* variant: the empty record is marked enriched
MetadataRecord_empty_enriched(url_id) ==
    [url_id |-> url_id, summary |-> None, keywords |-> None, tags |-> None,
     topic_cluster |-> None, is_enriched |-> TRUE]

\* MetadataRecord::empty
MetadataRecord_empty(url_id) ==
    [url_id |-> url_id, summary |-> None, keywords |-> None, tags |-> None,
     topic_cluster |-> None, is_enriched |-> FALSE]

\* variant: the UPDATE has no WHERE clause
UpdateLastSeen_all(rows, url, last_seen) ==
    [i \in 1..Len(rows) |-> [rows[i] EXCEPT !.last_seen = Max(@, last_seen)]]

\* variant: the UPDATE assigns the incoming value instead of the MAX
UpdateLastSeen_overwrite(rows, url, last_seen) ==
    [i \in 1..Len(rows) |->
        IF rows[i].url = url
        THEN [rows[i] EXCEPT !.last_seen = last_seen]
        ELSE rows[i]]

\* UPDATE url SET last_seen = MAX(last_seen, ?) WHERE url = ?
UpdateLastSeen(rows, url, last_seen) ==
    [i \in 1..Len(rows) |->
        IF rows[i].url = url
        THEN [rows[i] EXCEPT !.last_seen = Max(@, last_seen)]
        ELSE rows[i]]

\* variant: a url whose string is in the store replaces the row (INSERT OR
\* REPLACE)
insert_url_replace(d, url, fault) ==
    IF fault THEN [db |-> d, ok |-> FALSE]
    ELSE IF \E r \in Range(d.url) : r.url = url.url
    THEN [db |-> [d EXCEPT !.url = [i \in 1..Len(@) |->
                     IF @[i].url = url.url THEN url ELSE @[i]]],
          ok |-> TRUE]
    ELSE IF UrlConstraint(d, url)
    THEN [db |-> [d EXCEPT !.url = Append(@, url)], ok |-> TRUE]
    ELSE [db |-> d, ok |-> FALSE]

\* insert_url on the connection state d.  fault: the environment makes a
\* statement of this call fail.  Returns the new state and Ok/Err.
insert_url(d, url, fault) ==
    IF fault THEN [db |-> d, ok |-> FALSE]
    ELSE IF \E r \in Range(d.url) : r.url = url.url
    THEN [db |-> [d EXCEPT !.url = UpdateLastSeen(@, url.url, url.last_seen)],
          ok |-> TRUE]
    ELSE IF UrlConstraint(d, url)
    THEN [db |-> [d EXCEPT !.url = Append(@, url)], ok |-> TRUE]
    ELSE [db |-> d, ok |-> FALSE]

\* variant: insert_visit without the lookup of the same visit
insert_visit_nolookup(d, visit, fault) ==
    IF fault THEN [db |-> d, ok |-> FALSE]
    ELSE IF VisitConstraint(d, visit)
    THEN [db |-> [d EXCEPT !.visit = Append(@, visit)], ok |-> TRUE]
    ELSE [db |-> d, ok |-> FALSE]

\* insert_visit
insert_visit(d, visit, fault) ==
    IF fault THEN [db |-> d, ok |-> FALSE]
    ELSE IF \E r \in Range(d.visit) :
                /\ r.url_id = visit.url_id
                /\ r.visited_at = visit.visited_at
                /\ r.source_file = visit.source_file
    THEN [db |-> d, ok |-> TRUE]
    ELSE IF VisitConstraint(d, visit)
    THEN [db |-> [d EXCEPT !.visit = Append(@, visit)], ok |-> TRUE]
    ELSE [db |-> d, ok |-> FALSE]

\* UPDATE metadata SET summary = ?, ... WHERE url_id = ?
UpdateMetadata(rows, m) ==
    [i \in 1..Len(rows) |-> IF rows[i].url_id = m.url_id THEN m ELSE rows[i]]

\* variant: the UPDATE does not depend on is_enriched
insert_metadata_always(d, metadata, fault) ==
    IF fault THEN [db |-> d, ok |-> FALSE]
    ELSE IF \E r \in Range(d.metadata) : r.url_id = metadata.url_id
    THEN [db |-> [d EXCEPT !.metadata = UpdateMetadata(@, metadata)],
          ok |-> TRUE]
    ELSE IF MetadataConstraint(d, metadata)
    THEN [db |-> [d EXCEPT !.metadata = Append(@, metadata)], ok |-> TRUE]
    ELSE [db |-> d, ok |-> FALSE]

\* insert_metadata
insert_metadata(d, metadata, fault) ==
    IF fault THEN [db |-> d, ok |-> FALSE]
    ELSE IF \E r \in Range(d.metadata) : r.url_id = metadata.url_id
    THEN IF metadata.is_enriched
         THEN [db |-> [d EXCEPT !.metadata = UpdateMetadata(@, metadata)],
               ok |-> TRUE]
         ELSE [db |-> d, ok |-> TRUE]
    ELSE IF MetadataConstraint(d, metadata)
    THEN [db |-> [d EXCEPT !.metadata = Append(@, metadata)], ok |-> TRUE]
    ELSE [db |-> d, ok |-> FALSE]

\* InsertStats::default()
InsertStats_default ==
    [urls_inserted |-> 0, visits_inserted |-> 0, metadata_inserted |-> 0,
     errors |-> << >>]

\* stats.errors.push(format!(...)): the message is kept as the kind of the
\* record and its uuid
push_error(stats, kind, id) ==
    [stats EXCEPT !.errors = Append(@, <<kind, id>>)]

\* One iteration of the first loop of insert_history_data: the i-th url of
\* the batch and its empty metadata record.  st = [db, stats]; faults is
\* the set of statements the environment lets fail.
url_step(st, data, i, faults) ==
    LET url == data.urls[i]
        u == insert_url(st.db, url, <<"url", i>> \in faults)
    IN IF ~ u.ok
       THEN [db |-> u.db, stats |-> push_error(st.stats, "url", url.id)]
       ELSE LET s1 == [st.stats EXCEPT !.urls_inserted = @ + 1]
                m == insert_metadata(u.db, MetadataRecord_empty(url.id),
                                     <<"metadata", i>> \in faults)
            IN IF m.ok
               THEN [db |-> m.db,
                     stats |-> [s1 EXCEPT !.metadata_inserted = @ + 1]]
               ELSE [db |-> m.db, stats |-> push_error(s1, "metadata", url.id)]

\* One iteration of the second loop: the j-th visit of the batch
visit_step(st, data, j, faults) ==
    LET visit == data.visits[j]
        v == insert_visit(st.db, visit, <<"visit", j>> \in faults)
    IN IF v.ok
       THEN [db |-> v.db, stats |-> [st.stats EXCEPT !.visits_inserted = @ + 1]]
       ELSE [db |-> v.db, stats |-> push_error(st.stats, "visit", visit.id)]

RECURSIVE url_loop(_, _, _, _)
url_loop(st, data, i, faults) ==
    IF i > Len(data.urls) THEN st
    ELSE url_loop(url_step(st, data, i, faults), data, i + 1, faults)

RECURSIVE visit_loop(_, _, _, _)
visit_loop(st, data, j, faults) ==
    IF j > Len(data.visits) THEN st
    ELSE visit_loop(visit_step(st, data, j, faults), data, j + 1, faults)

\* variant: the closure propagates the first record failure (Err) instead
\* of collecting it
insert_history_data_body_abort(d, data, faults) ==
    LET st == visit_loop(url_loop([db |-> d, stats |-> InsertStats_default],
                                  data, 1, faults),
                         data, 1, faults)
    IN [ok |-> (st.stats.errors = << >>), db |-> st.db, stats |-> st.stats]

\* The closure insert_history_data runs inside the transaction: all urls
\* (with their metadata), then all visits; it ends with Ok(stats).
insert_history_data_body(d, data, faults) ==
    LET st == visit_loop(url_loop([db |-> d, stats |-> InsertStats_default],
                                  data, 1, faults),
                         data, 1, faults)
    IN [ok |-> TRUE, db |-> st.db, stats |-> st.stats]

\* variant: a failed commit leaves the statements of the transaction in
\* the store
transaction_norollback(d, data, faults, fatal) ==
    IF fatal = "lock"
    THEN [ok |-> FALSE, err |-> "Lock", db |-> d, stats |-> InsertStats_default]
    ELSE IF fatal = "begin"
    THEN [ok |-> FALSE, err |-> "Transaction", db |-> d,
          stats |-> InsertStats_default]
    ELSE LET r == insert_history_data_body(d, data, faults)
         IN IF fatal = "commit"
            THEN [ok |-> FALSE, err |-> "Transaction", db |-> r.db,
                  stats |-> InsertStats_default]
            ELSE [ok |-> TRUE, err |-> None, db |-> r.db, stats |-> r.stats]

\* DatabaseConnection::transaction around the closure.  fatal is what the
\* environment lets fail: "lock" (the mutex is poisoned), "begin"
\* (conn.transaction()), "commit" (tx.commit()) or "none".  A transaction
\* that is dropped without a successful commit is rolled back.
transaction(d, data, faults, fatal) ==
    IF fatal = "lock"
    THEN [ok |-> FALSE, err |-> "Lock", db |-> d, stats |-> InsertStats_default]
    ELSE IF fatal = "begin"
    THEN [ok |-> FALSE, err |-> "Transaction", db |-> d,
          stats |-> InsertStats_default]
    ELSE LET r == insert_history_data_body(d, data, faults)
         IN IF ~ r.ok
            THEN [ok |-> FALSE, err |-> "Query", db |-> d,
                  stats |-> InsertStats_default]
            ELSE IF fatal = "commit"
            THEN [ok |-> FALSE, err |-> "Transaction", db |-> d,
                  stats |-> InsertStats_default]
            ELSE [ok |-> TRUE, err |-> None, db |-> r.db, stats |-> r.stats]

\* insert_history_data
insert_history_data(d, data, faults, fatal) == transaction(d, data, faults, fatal)

\* the statements of one insert_history_data call that can fail
Statements(data) ==
    ({"url", "metadata"} \X (1..Len(data.urls)))
        \cup ({"visit"} \X (1..Len(data.visits)))

FaultSets(data) ==
    {F \in SUBSET Statements(data) : Cardinality(F) <= MaxFaults}

Fatals == {"none", "lock", "begin", "commit"}

\* the failures the environment can inject into one call: no statement runs
\* (and none fails) when the lock or the transaction cannot be had
Failures(data) ==
    {<<F, "none">> : F \in FaultSets(data)}
        \cup {<<F, "commit">> : F \in FaultSets(data)}
        \cup {<<{}, "lock">>, <<{}, "begin">>}

\* ------------------------------------------------------------------------
\* Searching the store (src/src/db/operations.rs, search_history)
\* ------------------------------------------------------------------------
\* An Option is << >> for None and << v >> for Some(v).
Some(v) == << v >>
IsSome(o) == o # << >>

\* the texts of the model that contain the text q as a proper substring
Substrings == {<< "1", "u1" >>, << "u", "u1" >>, << "u", "u2" >>}

\* column LIKE '%q%' for a column value text; NULL is like nothing
Like(text, q) ==
    /\ text # None
    /\ (q = text \/ << q, text >> \in Substrings)

\* FROM url u LEFT JOIN visit v ON u.id = v.url_id: one row per url and
\* visit of it, and one row with a NULL visit for a url that has none
LeftJoin(d) ==
    {[u |-> u, v |-> << v >>] :
        << u, v >> \in {p \in Range(d.url) \X Range(d.visit) :
                          p[1].id = p[2].url_id}}
      \cup {[u |-> u, v |-> << >>] :
               u \in {x \in Range(d.url) :
                        \A v \in Range(d.visit) : v.url_id # x.id}}

\* variant of the WHERE clause: the end date is excluded
Where_end_excluded(d, row, params) ==
    /\ IsSome(params.query) =>
          \/ Like(row.u.url, params.query[1])
          \/ Like(row.u.title, params.query[1])
          \/ \E m \in Range(d.metadata) :
                /\ m.url_id = row.u.id
                /\ \/ Like(m.summary, params.query[1])
                   \/ Like(m.keywords, params.query[1])
                   \/ Like(m.tags, params.query[1])
    /\ IsSome(params.domain) => row.u.domain = params.domain[1]
    /\ IsSome(params.start_date) =>
          (IsSome(row.v) /\ row.v[1].visited_at >= params.start_date[1])
    /\ IsSome(params.end_date) =>
          (IsSome(row.v) /\ row.v[1].visited_at < params.end_date[1])

\* the WHERE clause built from the parameters that are given, on one row of
\* the join; a comparison with the NULL visit is not true
Where(d, row, params) ==
    /\ IsSome(params.query) =>
          \/ Like(row.u.url, params.query[1])
          \/ Like(row.u.title, params.query[1])
          \/ \E m \in Range(d.metadata) :
                /\ m.url_id = row.u.id
                /\ \/ Like(m.summary, params.query[1])
                   \/ Like(m.keywords, params.query[1])
                   \/ Like(m.tags, params.query[1])
    /\ IsSome(params.domain) => row.u.domain = params.domain[1]
    /\ IsSome(params.start_date) =>
          (IsSome(row.v) /\ row.v[1].visited_at >= params.start_date[1])
    /\ IsSome(params.end_date) =>
          (IsSome(row.v) /\ row.v[1].visited_at <= params.end_date[1])

\* MAX(v.visited_at) over the visits vs of a group: NULL when there is none
MaxVisitedAt(vs) ==
    IF vs = {} THEN << >>
    ELSE << CHOOSE t \in {v.visited_at : v \in vs} :
              \A v \in vs : v.visited_at <= t >>

\* GROUP BY u.id with COUNT(v.id) and MAX(v.visited_at): one group per url
\* that has a row passing the WHERE clause
GroupByUrl(d, params) ==
    {[url |-> u,
      visit_count |-> Cardinality({r \in LeftJoin(d) :
          r.u = u /\ IsSome(r.v) /\ Where(d, r, params)}),
      last_visit |-> MaxVisitedAt({r.v[1] : r \in {x \in LeftJoin(d) :
          x.u = u /\ IsSome(x.v) /\ Where(d, x, params)}})] :
        u \in {r.u : r \in {x \in LeftJoin(d) : Where(d, x, params)}}}

\* ORDER BY last_visit DESC puts a before b (NULL is the smallest value)
OrderedBefore(a, b) ==
    /\ IsSome(a.last_visit)
    /\ (IsSome(b.last_visit) => a.last_visit[1] > b.last_visit[1])

\* the orders ORDER BY last_visit DESC can give the groups G: the order of
\* groups with the same last_visit is not determined by the query
OrderByLastVisitDesc(G) ==
    {s \in [1..Cardinality(G) -> G] :
        /\ \A i, j \in 1..Cardinality(G) : s[i] = s[j] => i = j
        /\ \A i, j \in 1..Cardinality(G) : i < j => ~ OrderedBefore(s[j], s[i])}

\* The statement compiles: the text is
\*   ... ORDER BY last_visit DESC [ LIMIT n][ OFFSET m]
\* and SQLite accepts OFFSET only after LIMIT, so that prepare() fails with
\* a syntax error when an offset is given without a limit.
PrepareOk(params) == IsSome(params.offset) => IsSome(params.limit)

\* LIMIT n OFFSET m on the ordered rows s
LimitOffset(s, params) ==
    LET skip == IF IsSome(params.offset) THEN params.offset[1] ELSE 0
        upto == IF IsSome(params.limit)
                THEN IF skip + params.limit[1] < Len(s)
                     THEN skip + params.limit[1] ELSE Len(s)
                ELSE Len(s)
    IN SubSeq(s, skip + 1, upto)

\* get_metadata_for_url: Some(row) or None
get_metadata_for_url(d, url_id) ==
    IF \E m \in Range(d.metadata) : m.url_id = url_id
    THEN << CHOOSE m \in Range(d.metadata) : m.url_id = url_id >>
    ELSE << >>

\* the SearchResult values built from the rows of the statement
SearchResultsOf(d, rows) ==
    [k \in 1..Len(rows) |->
        [url |-> rows[k].url,
         metadata |-> get_metadata_for_url(d, rows[k].url.id),
         visit_count |-> rows[k].visit_count,
         last_visit |-> rows[k].last_visit]]

\* total_count: SELECT COUNT(DISTINCT u.id) with the same WHERE clause when
\* a limit or an offset is given, urls.len() otherwise
TotalCount(d, params, urls) ==
    IF IsSome(params.limit) \/ IsSome(params.offset)
    THEN Cardinality({r.u.id : r \in {x \in LeftJoin(d) : Where(d, x, params)}})
    ELSE Len(urls)

\* what search_history returns when the statement gave the rows in the
\* order s
SearchOutcome(d, params, s) ==
    [ok |-> TRUE, err |-> None,
     urls |-> SearchResultsOf(d, LimitOffset(s, params)),
     total_count |-> TotalCount(d, params, LimitOffset(s, params))]

\* search_history(conn, params): the results it can return.  The mutex of
\* the connection is not poisoned.
search_history(d, params) ==
    IF ~ PrepareOk(params)
    THEN {[ok |-> FALSE, err |-> "Query", urls |-> << >>, total_count |-> 0]}
    ELSE {SearchOutcome(d, params, s) :
            s \in OrderByLastVisitDesc(GroupByUrl(d, params))}

\* ------------------------------------------------------------------------
\* Timeline
\* ------------------------------------------------------------------------
\* strftime('%H', datetime(t, 'unixepoch')) as a number, for t >= 0
HourOf(t) == (t \div 3600) % 24

\* strftime('%Y-%m-%d', datetime(t, 'unixepoch')): the calendar day of t,
\* as the number of the day since the epoch
DayOf(t) == t \div 86400

\* LIMIT of the domain buckets and of the sample urls of a bucket
DomainLimit == 100
SampleLimit == 5

\* FROM visit JOIN url ON visit.url_id = url.id
VisitJoinUrl(d) ==
    {[v |-> p[1], u |-> p[2]] :
        p \in {q \in Range(d.visit) \X Range(d.url) : q[1].url_id = q[2].id}}

\* variant of the conditions: a visit at the start date is left out
Conditions_start_excluded(row, params) ==
    /\ IsSome(params.start_date) => row.v.visited_at > params.start_date[1]
    /\ IsSome(params.end_date) => row.v.visited_at <= params.end_date[1]
    /\ IsSome(params.domain) => row.u.domain = params.domain[1]

\* the conditions of the bucket queries, built from the parameters given
Conditions(row, params) ==
    /\ IsSome(params.start_date) => row.v.visited_at >= params.start_date[1]
    /\ IsSome(params.end_date) => row.v.visited_at <= params.end_date[1]
    /\ IsSome(params.domain) => row.u.domain = params.domain[1]

\* the rows of the bucket query before grouping
BucketRows(d, params) == {r \in VisitJoinUrl(d) : Conditions(r, params)}

\* MIN(visited_at) over the rows R
MinVisitedAt(R) ==
    CHOOSE t \in {r.v.visited_at : r \in R} : \A r \in R : t <= r.v.visited_at

\* the first n elements of s
Take(s, n) == SubSeq(s, 1, IF Len(s) < n THEN Len(s) ELSE n)

\* GROUP BY hour: TimelineItem::Hourly without its urls
HourlyItems(R) ==
    {[type |-> "Hourly", hour |-> h,
      count |-> Cardinality({r \in R : HourOf(r.v.visited_at) = h}),
      timestamp |-> MinVisitedAt({r \in R : HourOf(r.v.visited_at) = h}),
      urls |-> << >>] : h \in {HourOf(r.v.visited_at) : r \in R}}

\* variant: ORDER BY hour ASC
HourlyBefore_hour_only(a, b) == a.hour < b.hour

\* ORDER BY count DESC, hour ASC
HourlyBefore(a, b) ==
    a.count > b.count \/ (a.count = b.count /\ a.hour < b.hour)

\* GROUP BY day: TimelineItem::Daily without its urls; date is the earliest
\* visit of the day
DailyItems(R) ==
    {[type |-> "Daily",
      date |-> MinVisitedAt({r \in R : DayOf(r.v.visited_at) = day}),
      count |-> Cardinality({r \in R : DayOf(r.v.visited_at) = day}),
      urls |-> << >>] : day \in {DayOf(r.v.visited_at) : r \in R}}

\* ORDER BY day DESC
DailyBefore(a, b) == DayOf(a.date) > DayOf(b.date)

\* GROUP BY url.domain: TimelineItem::Domain without its urls
DomainItems(R) ==
    {[type |-> "Domain", domain |-> dom,
      count |-> Cardinality({r \in R : r.u.domain = dom}),
      urls |-> << >>] : dom \in {r.u.domain : r \in R}}

\* ORDER BY count DESC
DomainBefore(a, b) == a.count > b.count

\* the WHERE clause of the sample query of a bucket: the hourly and the
\* domain query add the dates given, the daily query does not; the domain
\* is added by all three
SampleWhere(row, item, params) ==
    IF item.type = "Hourly"
    THEN /\ HourOf(row.v.visited_at) = item.hour
         /\ Conditions(row, params)
    ELSE IF item.type = "Daily"
    THEN /\ DayOf(row.v.visited_at) = DayOf(item.date)
         /\ IsSome(params.domain) => row.u.domain = params.domain[1]
    ELSE /\ row.u.domain = item.domain
         /\ IsSome(params.start_date) => row.v.visited_at >= params.start_date[1]
         /\ IsSome(params.end_date) => row.v.visited_at <= params.end_date[1]

\* GROUP BY url.id of the sample rows R: UrlWithVisits (first_seen and
\* last_seen of its url are the time of the call and are left out)
SampleGroups(R) ==
    {[url |-> [id |-> u.id, url |-> u.url, title |-> u.title,
               domain |-> u.domain],
      visit_count |-> Cardinality({r \in R : r.u = u}),
      last_visit |-> MaxVisitedAt({r.v : r \in {x \in R : x.u = u}})] :
        u \in {r.u : r \in R}}

\* ORDER BY visit_count DESC
SampleBefore(a, b) == a.visit_count > b.visit_count

\* the ORDER BY clause of the query named by puts row a before row b
RowBefore(by, a, b) ==
    IF by = "Hourly" THEN HourlyBefore(a, b)
    ELSE IF by = "Daily" THEN DailyBefore(a, b)
    ELSE IF by = "Domain" THEN DomainBefore(a, b)
    ELSE SampleBefore(a, b)

\* the orders the query named by can give the rows G: rows that its ORDER
\* BY clause does not tell apart come in any order
Orderings(G, by) ==
    {s \in [1..Cardinality(G) -> G] :
        /\ \A i, j \in 1..Cardinality(G) : s[i] = s[j] => i = j
        /\ \A i, j \in 1..Cardinality(G) : i < j => ~ RowBefore(by, s[j], s[i])}

\* fetch_urls_with_query for the sample query of item: the lists it can
\* return
fetch_sample_urls(d, item, params) ==
    {Take(o, SampleLimit) :
        o \in Orderings(SampleGroups({r \in VisitJoinUrl(d) :
                                         SampleWhere(r, item, params)}),
                        "Sample")}

\* an item with one of the samples it can get
WithSamples(d, item, params) ==
    {[item EXCEPT !.urls = Some(urls)] :
        urls \in fetch_sample_urls(d, item, params)}

\* fetch_sample_urls_for_timeline over the items in the order s
fetch_sample_urls_for_timeline(d, s, params) ==
    {t \in [1..Len(s) -> UNION {WithSamples(d, s[k], params) : k \in 1..Len(s)}] :
        \A k \in 1..Len(s) : t[k] \in WithSamples(d, s[k], params)}

get_hourly_timeline_data(d, params) ==
    UNION {fetch_sample_urls_for_timeline(d, s, params) :
             s \in Orderings(HourlyItems(BucketRows(d, params)), "Hourly")}

get_daily_timeline_data(d, params) ==
    UNION {fetch_sample_urls_for_timeline(d, s, params) :
             s \in Orderings(DailyItems(BucketRows(d, params)), "Daily")}

get_domain_timeline_data(d, params) ==
    UNION {fetch_sample_urls_for_timeline(d, Take(s, DomainLimit), params) :
             s \in Orderings(DomainItems(BucketRows(d, params)), "Domain")}

\* get_timeline_data(conn, params): the lists of items it can return
get_timeline_data(d, params) ==
    IF params.group_by = "Hour" THEN get_hourly_timeline_data(d, params)
    ELSE IF params.group_by = "Day" THEN get_daily_timeline_data(d, params)
    ELSE get_domain_timeline_data(d, params)

\* ------------------------------------------------------------------------
\* Operations
\* ------------------------------------------------------------------------
\* a thread that runs no command
Idle ==
    [pc |-> "idle", kind |-> "none", queue |-> << >>, i |-> 1,
     stats |-> InsertStats_default, errors |-> << >>, views |-> << >>,
     ret |-> "none", n |-> 0]

\* last: op is the operation, path/data/faults/fatal its inputs, ok/err/
\* stats/log what it returned; reingest and refile tell whether the batch,
\* or another batch of the same source file, had already been ingested
\* cleanly when the call started, first whether the batch had not been
\* passed to insert_history_data before.  For parse_history_db, paths and
\* devices are its inputs, successful and failed its two results and log
\* the calls of extract_history it made.  For mac_to_utc, mac is its input
\* and unix the Unix timestamp of the instant it returned.  For
\* search_history, params is its input and urls and total_count its result.
\* For get_timeline_data, params is its input and items its result.  For
\* process_history_files, paths is its input, successful the batches
\* extracted, fails the failures the environment injects into the ingestion
\* of each of them, and errors the errors of ProcessingResults.  For
\* mac_to_utc on a full i64, mac64 is the input, outcome how the call ended
\* and unix64 the Unix timestamp of the instant returned.
NoOp ==
    [op |-> "init", path |-> None, data |-> << >>, faults |-> {},
     fatal |-> "none", ok |-> TRUE, err |-> None,
     stats |-> InsertStats_default, log |-> << >>,
     reingest |-> FALSE, refile |-> FALSE, first |-> FALSE,
     paths |-> << >>, devices |-> << >>, successful |-> << >>,
     failed |-> << >>, mac |-> 0, unix |-> 0,
     params |-> << >>, urls |-> << >>, total_count |-> 0,
     items |-> << >>, fails |-> << >>, errors |-> << >>,
     mac64 |-> << >>, unix64 |-> << >>, outcome |-> "none",
     metadata |-> << >>]

\* another extraction of the source file of data was ingested cleanly
OtherOfSameFile(data) ==
    \E c \in clean : c # data /\ c.source.file_path = data.source.file_path

Init ==
    /\ db = EmptyDb
    /\ batches = {}
    /\ nextId = 1
    /\ clean = {}
    /\ ingested = {}
    /\ nIngest = 0
    /\ nExtract = 0
    /\ last = NoOp
    /\ proc = [p \in Procs |-> Idle]
    /\ state_guard = Free
    /\ conn_guard = Free
    /\ tx = << >>

\* extract_urls and extract_visits over the file at path build a batch
\* with freshly minted ids.
ExtractBatch(path, device) ==
    /\ Cardinality(batches) < MaxBatches
    /\ LET r == extract_rows(Files[path], path, device, nextId, << >>)
       IN /\ r.ok
          /\ batches' = batches \cup {r.data[1]}
          /\ nextId' = r.next
          /\ last' = [NoOp EXCEPT !.op = "extract_rows", !.path = path,
                                  !.data = r.data, !.log = r.log]
    /\ UNCHANGED <<db, clean, ingested, nIngest, nExtract, threadVars>>

\* extract_history(path, device)
ExtractHistory(path, device) ==
    /\ nExtract < MaxExtract
    /\ LET r == extract_history(Files[path], path, device, nextId)
       IN /\ nextId' = r.next
          /\ batches' = batches \cup Range(r.data)
          /\ last' = [NoOp EXCEPT !.op = "extract_history", !.path = path,
                                  !.data = r.data, !.ok = r.ok, !.err = r.err,
                                  !.log = r.log]
    /\ nExtract' = nExtract + 1
    /\ UNCHANGED <<db, clean, ingested, nIngest, threadVars>>

\* insert_history_data(conn, data) for a batch held in memory
InsertHistoryData(data, faults, fatal) ==
    /\ nIngest < MaxIngest
    /\ LET r == insert_history_data(db, data, faults, fatal)
       IN /\ db' = r.db
          /\ clean' = IF r.ok /\ faults = {} THEN clean \cup {data} ELSE clean
          /\ ingested' = ingested \cup {data}
          /\ last' = [NoOp EXCEPT !.op = "insert_history_data",
                                  !.path = data.source.file_path,
                                  !.data = << data >>, !.faults = faults,
                                  !.fatal = fatal, !.ok = r.ok, !.err = r.err,
                                  !.stats = r.stats,
                                  !.reingest = (data \in clean),
                                  !.refile = OtherOfSameFile(data),
                                  !.first = (data \notin ingested)]
    /\ nIngest' = nIngest + 1
    /\ UNCHANGED <<batches, nextId, nExtract, threadVars>>

\* the lists of paths parse_history_db is called with
FileLists == UNION {[1..n -> Paths] : n \in 1..MaxFiles}

\* the device name lists it is called with: none, or a list that may be
\* shorter than the list of paths
DeviceNames == {"d1", "d2"}
DeviceLists ==
    {<< >>} \cup {<< names >> :
                    names \in UNION {[1..n -> DeviceNames] : n \in 0..MaxFiles}}

\* parse_history_db(paths, devices).  It reads nothing but its arguments
\* and the files, so it is called once, from the initial state.
ParseHistoryDb(paths, devices) ==
    /\ last.op = "init"
    /\ LET r == parse_history_db(paths, devices, nextId)
       IN /\ nextId' = r.next
          /\ batches' = batches \cup Range(r.successful)
          /\ last' = [NoOp EXCEPT !.op = "parse_history_db",
                                  !.paths = paths, !.devices = devices,
                                  !.successful = r.successful,
                                  !.failed = r.failed, !.log = r.calls]
    /\ UNCHANGED <<db, clean, ingested, nIngest, nExtract, threadVars>>

\* extract_history from the line after verify_safari_schema(&conn)? on,
\* for a file on which the check is taken to have returned Ok
ExtractAfterCheck(path, device) ==
    /\ last.op = "init"
    /\ LET r == extract_rows(Files[path], path, device, nextId, << >>)
       IN /\ nextId' = r.next
          /\ last' = [NoOp EXCEPT !.op = "extract_after_check",
                                  !.path = path, !.data = r.data,
                                  !.ok = r.ok, !.err = r.err, !.log = r.log]
    /\ UNCHANGED <<db, batches, clean, ingested, nIngest, nExtract,
                   threadVars>>

NextExtract ==
    \/ \E paths \in FileLists, devices \in DeviceLists :
          ParseHistoryDb(paths, devices)
    \/ \E path \in Paths, device \in Devices : ExtractAfterCheck(path, device)

SpecExtract == Init /\ [][NextExtract]_vars

\* the native timestamps mac_to_utc is called with: a window around the
\* macOS epoch, the Unix epoch, the value of test_mac_to_utc_conversion and
\* the greatest one whose Unix timestamp is below 2^31
MacTimes ==
    (-MaxTime..MaxTime)
        \cup {-MAC_TO_UNIX_EPOCH_OFFSET, 1000000000, 1169176447}

\* mac_to_utc(mac_timestamp), called once from the initial state
MacToUtc(mac_timestamp) ==
    /\ last.op = "init"
    /\ LET r == mac_to_utc(mac_timestamp)
       IN last' = [NoOp EXCEPT !.op = "mac_to_utc", !.mac = mac_timestamp,
                               !.ok = r.ok, !.unix = r.ts]
    /\ UNCHANGED <<db, batches, nextId, clean, ingested, nIngest, nExtract,
                   threadVars>>

\* the i64 values mac_to_utc is called with: those of MacTimes and values
\* at the ends of the ranges of i64 and of chrono
MacTimes64 ==
    {FromInt(n) : n \in {-1, 0, 1, 1000000000}}
      \cup {I64_MAX, I64_MIN, WrappingAdd64(I64_MIN, FromInt(1)),
            WrappingAdd64(I64_MAX, FromInt(-MAC_TO_UNIX_EPOCH_OFFSET)),
            WrappingAdd64(I64_MAX, FromInt(1 - MAC_TO_UNIX_EPOCH_OFFSET)),
            WrappingAdd64(ChronoMaxSecs, FromInt(-MAC_TO_UNIX_EPOCH_OFFSET)),
            WrappingAdd64(ChronoMaxSecs, FromInt(1 - MAC_TO_UNIX_EPOCH_OFFSET)),
            WrappingAdd64(ChronoMinSecs, FromInt(-MAC_TO_UNIX_EPOCH_OFFSET)),
            WrappingAdd64(ChronoMinSecs, FromInt(-1 - MAC_TO_UNIX_EPOCH_OFFSET))}

\* mac_to_utc(mac_timestamp) in a build with or without overflow checks
MacToUtc64(mac_timestamp, overflow_checks) ==
    /\ last.op = "init"
    /\ last' = [NoOp EXCEPT
          !.op = "mac_to_utc_i64", !.mac64 = mac_timestamp,
          !.outcome = mac_to_utc_i64(mac_timestamp, overflow_checks).outcome,
          !.unix64 = mac_to_utc_i64(mac_timestamp, overflow_checks).ts]
    /\ UNCHANGED <<db, batches, nextId, clean, ingested, nIngest, nExtract,
                   threadVars>>

NextTime ==
    \/ \E mac_timestamp \in MacTimes : MacToUtc(mac_timestamp)
    \/ \E mac_timestamp \in MacTimes64, overflow_checks \in BOOLEAN :
          MacToUtc64(mac_timestamp, overflow_checks)

SpecTime == Init /\ [][NextTime]_vars

\* The stores a reading operation is run on: [db, next] after one more
\* file was extracted (ids from next on) and its batch ingested into db,
\* with any of the statement failures
IngestOneMore(st) ==
    {st} \cup
    UNION {{[db |-> insert_history_data(st.db, b.data[1], F, "none").db,
             next |-> b.next] : F \in FaultSets(b.data[1])} :
           b \in {x \in {extract_rows(Files[path], path, None, st.next, << >>) :
                           path \in Paths} : x.ok}}

\* ... after at most k files
RECURSIVE StoresAfter(_)
StoresAfter(k) ==
    IF k = 0 THEN {[db |-> EmptyDb, next |-> 1]}
    ELSE UNION {IngestOneMore(st) : st \in StoresAfter(k - 1)}

\* the state after the ingestions that filled the store
InitRead ==
    /\ \E st \in StoresAfter(MaxIngest) : db = st.db /\ nextId = st.next
    /\ batches = {}
    /\ clean = {}
    /\ ingested = {}
    /\ nIngest = 0
    /\ nExtract = 0
    /\ last = NoOp
    /\ proc = [p \in Procs |-> Idle]
    /\ state_guard = Free
    /\ conn_guard = Free
    /\ tx = << >>

\* the parameters of a search
Pages == {<< >>} \cup {Some(n) : n \in 0..MaxPage}
SearchParams ==
    [query : {<< >>, Some("1")},
     domain : {<< >>, Some("example.com")},
     start_date : {<< >>, Some(978314400)},
     end_date : {<< >>, Some(978314400)},
     limit : Pages,
     offset : Pages]

\* search_history(conn, params), called once
SearchHistory(params) ==
    /\ last.op = "init"
    /\ \E r \in search_history(db, params) :
          last' = [NoOp EXCEPT !.op = "search_history", !.params = params,
                               !.ok = r.ok, !.err = r.err, !.urls = r.urls,
                               !.total_count = r.total_count]
    /\ UNCHANGED <<db, batches, nextId, clean, ingested, nIngest, nExtract,
                   threadVars>>

NextSearch == \E params \in SearchParams : SearchHistory(params)

SpecSearch == InitRead /\ [][NextSearch]_vars

\* the parameters of a timeline request
TimelineParams ==
    [start_date : {<< >>, Some(978314400)},
     end_date : {<< >>, Some(978314400)},
     domain : {<< >>, Some("example.com")},
     group_by : {"Hour", "Day", "Domain"}]

\* get_timeline_data(conn, params), called once
GetTimelineData(params) ==
    /\ last.op = "init"
    /\ \E r \in get_timeline_data(db, params) :
          last' = [NoOp EXCEPT !.op = "get_timeline_data", !.params = params,
                               !.items = r]
    /\ UNCHANGED <<db, batches, nextId, clean, ingested, nIngest, nExtract,
                   threadVars>>

NextTimeline == \E params \in TimelineParams : GetTimelineData(params)

SpecTimeline == InitRead /\ [][NextTimeline]_vars

\* the texts a metadata record carries in summary, keywords, tags and
\* topic_cluster: none of them, or one of two enrichments
MetadataTexts ==
    {[summary |-> None, keywords |-> None, tags |-> None,
      topic_cluster |-> None],
     [summary |-> "s1", keywords |-> "k1", tags |-> "g1",
      topic_cluster |-> "c1"],
     [summary |-> "s2", keywords |-> "k2", tags |-> "g2",
      topic_cluster |-> "c2"]}

\* an id no url row has
UnknownId == 0

\* the MetadataRecord values insert_metadata is called with on store d
MetadataRecords(d) ==
    {[url_id |-> id, summary |-> t.summary, keywords |-> t.keywords,
      tags |-> t.tags, topic_cluster |-> t.topic_cluster,
      is_enriched |-> e] :
        id \in {r.id : r \in Range(d.url)} \cup {UnknownId},
        t \in MetadataTexts, e \in BOOLEAN}

\* insert_metadata(conn, metadata) on the store, fault: its statement fails
InsertMetadata(metadata, fault) ==
    /\ last.op \in {"init", "insert_metadata"}
    /\ LET r == insert_metadata(db, metadata, fault)
       IN  /\ db' = r.db
           /\ last' = [NoOp EXCEPT !.op = "insert_metadata",
                                   !.metadata = metadata, !.ok = r.ok]
    /\ UNCHANGED <<batches, nextId, clean, ingested, nIngest, nExtract,
                   threadVars>>

NextMetadata ==
    \E metadata \in MetadataRecords(db), fault \in BOOLEAN :
        InsertMetadata(metadata, fault)

SpecMetadata == InitRead /\ [][NextMetadata]_vars

Next ==
    \/ \E path \in Paths, device \in Devices : ExtractBatch(path, device)
    \/ \E path \in Paths, device \in Devices : ExtractHistory(path, device)
    \/ \E data \in batches : \E f \in Failures(data) :
          InsertHistoryData(data, f[1], f[2])

Spec == Init /\ [][Next]_vars

\* ------------------------------------------------------------------------
\* Commands running on concurrent threads (src/src/main.rs)
\* ------------------------------------------------------------------------
\* The tauri commands are async functions that run on a thread pool.  Each
\* one locks AppState.db_connection for its whole body; the operations of
\* src/src/db lock the connection's own mutex around their statements.
\* Here one insert_history_data call is a sequence of steps (lock, begin,
\* one step per url and per visit, commit), so that another thread can be
\* scheduled between any two of them.  The batches a command ingests are
\* those extract_urls and extract_visits build from its files.

\* variant: lock() returns without waiting for the holder
MutexFree_nowait(owner) == TRUE

\* Mutex::lock (DatabaseConnection::get, app_state.db_connection.lock())
\* returns once no other thread holds the mutex
MutexFree(owner) == owner = Free

\* variant: the guard is forgotten (mem::forget) instead of dropped
DropGuard_forget(owner) == owner

\* a MutexGuard held by owner goes out of scope: the mutex is unlocked
DropGuard(owner) == Free

\* the files the commands of the threads are invoked with
ThreadPaths == {"plain", "noitems"}

\* sequences of 1..MaxFiles paths
PathLists ==
    UNION {[1..n -> ThreadPaths] : n \in 1..MaxFiles}

\* number of commands invoked so far
RECURSIVE Invoked(_)
Invoked(k) == IF k = 0 THEN 0 ELSE proc[k].n + Invoked(k - 1)

\* parse_history_db over the paths from the k-th on: the batches built, the
\* failed files and the next fresh id
RECURSIVE parse_rows(_, _, _)
parse_rows(paths, k, acc) ==
    IF k > Len(paths) THEN acc
    ELSE LET r == extract_rows(Files[paths[k]], paths[k], None, acc.next, << >>)
         IN parse_rows(paths, k + 1,
              IF r.ok
              THEN [successful |-> Append(acc.successful, r.data[1]),
                    failed |-> acc.failed, next |-> r.next]
              ELSE [successful |-> acc.successful,
                    failed |-> Append(acc.failed, <<"file", k>>),
                    next |-> r.next])

\* what a statement run on the connection sees
ConnView == IF tx = << >> THEN db ELSE tx[1]

\* process_history_files up to the lock: the files are extracted
StartProcess(p, paths) ==
    /\ proc[p].pc = "idle" /\ Invoked(NumProcs) < MaxCmds
    /\ LET r == parse_rows(paths, 1,
                   [successful |-> << >>, failed |-> << >>, next |-> nextId])
       IN /\ nextId' = r.next
          /\ proc' = [proc EXCEPT ![p] =
                [Idle EXCEPT !.pc = "lock_state", !.kind = "process",
                             !.queue = r.successful, !.errors = r.failed,
                             !.n = proc[p].n + 1]]
    /\ UNCHANGED <<db, batches, clean, ingested, nIngest, nExtract, last,
                   state_guard, conn_guard, tx>>

\* search_history, get_timeline_data or get_history_stats is invoked
StartRead(p) ==
    /\ proc[p].pc = "idle" /\ Invoked(NumProcs) < MaxCmds
    /\ proc' = [proc EXCEPT ![p] =
          [Idle EXCEPT !.pc = "lock_state", !.kind = "read",
                       !.n = proc[p].n + 1]]
    /\ UNCHANGED <<db, batches, nextId, clean, ingested, nIngest, nExtract, last,
                   state_guard, conn_guard, tx>>

\* where process_history_files goes with the batches left to ingest
AfterBatch(queue) == IF queue = << >> THEN "return" ELSE "get"

\* app_state.db_connection.lock()
LockState(p) ==
    /\ proc[p].pc = "lock_state"
    /\ MutexFree(state_guard)
    /\ state_guard' = p
    /\ proc' = [proc EXCEPT ![p].pc =
          IF proc[p].kind = "read" THEN "get" ELSE AfterBatch(proc[p].queue),
                            ![p].ret =
          IF proc[p].kind = "process" /\ proc[p].queue = << >>
          THEN "ok" ELSE "none"]
    /\ UNCHANGED <<db, batches, nextId, clean, ingested, nIngest, nExtract, last,
                   conn_guard, tx>>

\* DatabaseConnection::get in transaction() or with_connection()
GetConnection(p) ==
    /\ proc[p].pc = "get"
    /\ MutexFree(conn_guard)
    /\ conn_guard' = p
    /\ proc' = [proc EXCEPT ![p].pc =
          IF proc[p].kind = "read" THEN "read1" ELSE "begin"]
    /\ UNCHANGED <<db, batches, nextId, clean, ingested, nIngest, nExtract, last,
                   state_guard, tx>>

\* conn.transaction(): on failure transaction() returns the error, the
\* connection guard is dropped and the command returns through its ?
Begin(p, fails) ==
    /\ proc[p].pc = "begin"
    /\ IF fails
       THEN /\ conn_guard' = DropGuard(conn_guard)
            /\ tx' = tx
            /\ proc' = [proc EXCEPT ![p].pc = "return", ![p].ret = "err"]
       ELSE /\ conn_guard' = conn_guard
            /\ tx' = << db >>
            /\ proc' = [proc EXCEPT ![p].pc = "urls", ![p].i = 1,
                                    ![p].stats = InsertStats_default]
    /\ UNCHANGED <<db, batches, nextId, clean, ingested, nIngest, nExtract, last,
                   state_guard>>

\* one iteration of the url loop of insert_history_data
UrlStep(p) ==
    /\ proc[p].pc = "urls"
    /\ LET data == proc[p].queue[1]
       IN IF proc[p].i > Len(data.urls)
          THEN /\ proc' = [proc EXCEPT ![p].pc = "visits", ![p].i = 1]
               /\ tx' = tx
          ELSE LET st == url_step([db |-> ConnView, stats |-> proc[p].stats],
                                  data, proc[p].i, {})
               IN /\ tx' = << st.db >>
                  /\ proc' = [proc EXCEPT ![p].stats = st.stats,
                                          ![p].i = proc[p].i + 1]
    /\ UNCHANGED <<db, batches, nextId, clean, ingested, nIngest, nExtract, last,
                   state_guard, conn_guard>>

\* one iteration of the visit loop of insert_history_data
VisitStep(p) ==
    /\ proc[p].pc = "visits"
    /\ LET data == proc[p].queue[1]
       IN IF proc[p].i > Len(data.visits)
          THEN /\ proc' = [proc EXCEPT ![p].pc = "commit"]
               /\ tx' = tx
          ELSE LET st == visit_step([db |-> ConnView, stats |-> proc[p].stats],
                                    data, proc[p].i, {})
               IN /\ tx' = << st.db >>
                  /\ proc' = [proc EXCEPT ![p].stats = st.stats,
                                          ![p].i = proc[p].i + 1]
    /\ UNCHANGED <<db, batches, nextId, clean, ingested, nIngest, nExtract, last,
                   state_guard, conn_guard>>

\* tx.commit() and the end of transaction(): the connection guard is
\* dropped; on failure the transaction is rolled back and the command
\* returns the error, otherwise it goes on with the next batch
Commit(p, fails) ==
    /\ proc[p].pc = "commit"
    /\ conn_guard' = DropGuard(conn_guard)
    /\ tx' = << >>
    /\ IF fails
       THEN /\ db' = db
            /\ proc' = [proc EXCEPT ![p].pc = "return", ![p].ret = "err"]
       ELSE /\ db' = tx[1]
            /\ proc' = [proc EXCEPT
                  ![p].queue = Tail(@),
                  ![p].errors = @ \o proc[p].stats.errors,
                  ![p].pc = AfterBatch(Tail(proc[p].queue)),
                  ![p].ret = IF Tail(proc[p].queue) = << >> THEN "ok" ELSE "none"]
    /\ UNCHANGED <<batches, nextId, clean, ingested, nIngest, nExtract, last, state_guard>>

\* a first statement of a reading operation (with_connection)
Read1(p) ==
    /\ proc[p].pc = "read1"
    /\ proc' = [proc EXCEPT ![p].pc = "read2", ![p].views = << ConnView >>]
    /\ UNCHANGED <<db, batches, nextId, clean, ingested, nIngest, nExtract, last,
                   state_guard, conn_guard, tx>>

\* a later statement of the reading operation and the end of
\* with_connection: the connection guard is dropped
Read2(p) ==
    /\ proc[p].pc = "read2"
    /\ conn_guard' = DropGuard(conn_guard)
    /\ proc' = [proc EXCEPT ![p].pc = "return", ![p].ret = "ok",
                            ![p].views = Append(@, ConnView)]
    /\ UNCHANGED <<db, batches, nextId, clean, ingested, nIngest, nExtract, last,
                   state_guard, tx>>

\* the command returns: state_guard is dropped
Return(p) ==
    /\ proc[p].pc = "return"
    /\ state_guard' = DropGuard(state_guard)
    /\ proc' = [proc EXCEPT ![p].pc = "idle", ![p].views = << >>,
                            ![p].queue = << >>]
    /\ UNCHANGED <<db, batches, nextId, clean, ingested, nIngest, nExtract, last,
                   conn_guard, tx>>

NextThreads ==
    \E p \in Procs :
        \/ \E paths \in PathLists : StartProcess(p, paths)
        \/ StartRead(p)
        \/ LockState(p)
        \/ GetConnection(p)
        \/ \E fails \in BOOLEAN : Begin(p, fails)
        \/ UrlStep(p)
        \/ VisitStep(p)
        \/ \E fails \in BOOLEAN : Commit(p, fails)
        \/ Read1(p)
        \/ Read2(p)
        \/ Return(p)

SpecThreads == Init /\ [][NextThreads]_vars

\* ------------------------------------------------------------------------
\* process_history_files as one call (src/src/main.rs)
\* ------------------------------------------------------------------------
\* insert_history_data(..).map_err(..)? on an Err: the command returns the
\* error; r is the result of the failed call, whose store holds what the
\* earlier calls committed
ingest_failed(r) ==
    [ok |-> FALSE, err |-> "Database error", db |-> r.db, errors |-> << >>]

\* the loop over the batches from the k-th on; fails[k] is what the
\* environment lets fail in the ingestion of the k-th batch
RECURSIVE ingest_loop(_, _, _, _, _)

\* the rest of an iteration, r being the result of insert_history_data
ingest_next(r, successful, k, fails, errors) ==
    IF ~ r.ok THEN ingest_failed(r)
    ELSE ingest_loop(r.db, successful, k + 1, fails,
                     errors \o r.stats.errors)

ingest_loop(d, successful, k, fails, errors) ==
    IF k > Len(successful)
    THEN [ok |-> TRUE, err |-> None, db |-> d, errors |-> errors]
    ELSE ingest_next(insert_history_data(d, successful[k], fails[k][1],
                                         fails[k][2]),
                     successful, k, fails, errors)

\* process_history_files(paths) on the store d, with AppState holding the
\* connection; parsed is what parse_history_db gave
process_history_files(d, parsed, fails) ==
    ingest_loop(d, parsed.successful, 1, fails, parsed.failed)

\* the failures the environment can inject into the ingestion of each of
\* the batches
FailureSeqs(successful) ==
    {f \in [1..Len(successful) ->
              UNION {Failures(successful[k]) : k \in 1..Len(successful)}] :
        \A k \in 1..Len(successful) : f[k] \in Failures(successful[k])}

\* the rest of ProcessHistoryFiles, parsed being what the extraction gave
ProcessParsed(paths, parsed) ==
    /\ nextId' = parsed.next
    /\ \E fails \in FailureSeqs(parsed.successful) :
          /\ db' = process_history_files(db, parsed, fails).db
          /\ last' = [NoOp EXCEPT
                !.op = "process_history_files", !.paths = paths,
                !.successful = parsed.successful, !.fails = fails,
                !.ok = process_history_files(db, parsed, fails).ok,
                !.err = process_history_files(db, parsed, fails).err,
                !.errors = process_history_files(db, parsed, fails).errors]

\* the command process_history_files, called once on the empty store
ProcessHistoryFiles(paths) ==
    /\ last.op = "init"
    /\ ProcessParsed(paths, parse_rows(paths, 1,
            [successful |-> << >>, failed |-> << >>, next |-> nextId]))
    /\ UNCHANGED <<batches, clean, ingested, nIngest, nExtract, threadVars>>

NextProcess == \E paths \in FileLists : ProcessHistoryFiles(paths)

SpecProcess == Init /\ [][NextProcess]_vars

\* ------------------------------------------------------------------------
\* Properties of the threads
\* ------------------------------------------------------------------------
\* the steps between DatabaseConnection::get and the drop of its guard
InStore(p) ==
    proc[p].pc \in {"begin", "urls", "visits", "commit", "read1", "read2"}

\* C9: at most one command is accessing the store at any moment, no
\* statement of a search, timeline or stats runs while a transaction is
\* open, and all statements of one such command see the committed store.
C9_Serialized ==
    /\ \A p, q \in Procs : (InStore(p) /\ InStore(q)) => p = q
    /\ \A p \in Procs :
          (proc[p].kind = "read" /\ InStore(p)) => tx = << >>
    /\ \A p \in Procs :
          (proc[p].kind = "read" /\ proc[p].pc \in {"read2", "return"})
            => \A k \in 1..Len(proc[p].views) : proc[p].views[k] = db

\* C9 witness: a search was invoked and waits for the lock while another
\* thread is in the middle of ingesting a batch
C9_Witness ==
    \E p, q \in Procs :
        /\ proc[p].pc = "visits" /\ tx # << >> /\ tx[1] # db
        /\ proc[q].kind = "read" /\ proc[q].pc = "lock_state"

\* ------------------------------------------------------------------------
\* Properties of ingestion
\* ------------------------------------------------------------------------
\* the step is a call of insert_history_data (every operation writes last)
IngestStep == last'.op = "insert_history_data"
IngestedData == last'.data[1]

UrlIds(d) == {r.id : r \in Range(d.url)}
UrlStrings(d) == {r.url : r \in Range(d.url)}

SameVisit(a, b) ==
    /\ a.url_id = b.url_id
    /\ a.visited_at = b.visited_at
    /\ a.source_file = b.source_file

LastSeenUnchanged ==
    /\ Len(db'.url) = Len(db.url)
    /\ \A i \in 1..Len(db.url) : db'.url[i].last_seen = db.url[i].last_seen

\* C1: ingesting a batch that was already ingested (same record ids, the
\* earlier call committed and none of its statements failed) leaves the
\* canonical store unchanged: no url, visit or metadata row is added and
\* no last_seen changes.
C1_ReingestSameBatch ==
    [][(IngestStep /\ IngestedData \in clean) => db' = db]_vars

\* C1 witness: a batch with urls and visits was ingested a second time and
\* the call returned Ok
C1_Witness ==
    /\ last.op = "insert_history_data"
    /\ last.reingest /\ last.ok /\ last.faults = {}
    /\ Len(last.data[1].urls) = 2
    /\ Len(db.visit) >= 2

\* C2: when an extraction of the same source file (same path, other ids)
\* has been ingested before (the call committed and none of its statements
\* failed), the ingestion of a fresh extraction of it, one that was not
\* ingested before, adds no visit row and no url row and changes no
\* last_seen.
C2_ReingestSameFile ==
    [][(/\ IngestStep
        /\ IngestedData \notin ingested
        /\ OtherOfSameFile(IngestedData))
         => (LastSeenUnchanged /\ Len(db'.visit) = Len(db.visit))]_vars

\* C2 witness: the second extraction of a file with visits was ingested and
\* the call returned Ok
C2_Witness ==
    /\ last.op = "insert_history_data"
    /\ last.refile /\ last.first /\ last.ok /\ last.faults = {}
    /\ Len(last.data[1].visits) = 2
    /\ Len(db.visit) = 2

\* the greatest last_seen among the stored value and the incoming records
\* for the url string that were merged
RECURSIVE MergedLastSeen(_, _, _, _, _)
MergedLastSeen(cur, url, urls, i, faults) ==
    IF i > Len(urls) THEN cur
    ELSE MergedLastSeen(
           IF urls[i].url = url /\ <<"url", i>> \notin faults
           THEN (IF urls[i].last_seen > cur THEN urls[i].last_seen ELSE cur)
           ELSE cur,
           url, urls, i + 1, faults)

\* C3: the last_seen of a stored url never decreases, and a committed
\* ingestion leaves it at the maximum of the stored value and the incoming
\* values for that url string.
C3_LastSeenMonotonic ==
    [][/\ Len(db'.url) >= Len(db.url)
       /\ \A i \in 1..Len(db.url) :
            /\ db'.url[i].url = db.url[i].url
            /\ db'.url[i].last_seen >= db.url[i].last_seen
            /\ (IngestStep /\ last'.ok)
                 => db'.url[i].last_seen =
                      MergedLastSeen(db.url[i].last_seen, db.url[i].url,
                                     IngestedData.urls, 1, last'.faults)]_vars

\* C3 witness: a batch was merged whose record for a stored url carries an
\* older last_seen than the store
C3_Witness ==
    /\ last.op = "insert_history_data" /\ last.ok
    /\ \E r \in Range(db.url) : \E u \in Range(last.data[1].urls) :
          u.url = r.url /\ u.id # r.id /\ u.last_seen < r.last_seen

\* C4: no two stored visits have the same (url, visited_at, source_file).
C4_VisitTripleUnique ==
    \A i, j \in 1..Len(db.visit) :
        i # j => ~ SameVisit(db.visit[i], db.visit[j])

\* C4 witness: a batch holding two visits with the same triple was
\* ingested and the visit is stored
C4_Witness ==
    /\ last.op = "insert_history_data" /\ last.ok /\ last.faults = {}
    /\ \E i, j \in 1..Len(last.data[1].visits) :
          /\ i # j
          /\ SameVisit(last.data[1].visits[i], last.data[1].visits[j])
          /\ \E r \in Range(db.visit) : SameVisit(r, last.data[1].visits[i])

MetadataFor(d, id) == {i \in 1..Len(d.metadata) : d.metadata[i].url_id = id}

\* C5: no url has more than one metadata row, and ingesting a batch of
\* another extraction whose url string is already stored adds no metadata
\* row, neither for the stored url id nor under the id of the batch.
C5_MetadataNotDuplicated ==
    /\ [](\A r \in Range(db.url) : Cardinality(MetadataFor(db, r.id)) <= 1)
    /\ [](\A i, j \in 1..Len(db.metadata) :
            i # j => db.metadata[i].url_id # db.metadata[j].url_id)
    /\ [][IngestStep =>
           \A r \in Range(db.url) :
              (r.id \notin {u.id : u \in Range(IngestedData.urls)})
              => /\ MetadataFor(db', r.id) = MetadataFor(db, r.id)
                 /\ \A u \in Range(IngestedData.urls) :
                      u.url = r.url => MetadataFor(db', u.id) = {}]_vars

\* C5 witness: a batch with a fresh id for a stored url string was
\* ingested; the stored url has its one metadata row
C5_Witness ==
    /\ last.op = "insert_history_data" /\ last.ok /\ last.faults = {}
    /\ \E r \in Range(db.url) : \E u \in Range(last.data[1].urls) :
          /\ u.url = r.url /\ u.id # r.id
          /\ r.id \notin {w.id : w \in Range(last.data[1].urls)}
          /\ Cardinality(MetadataFor(db, r.id)) = 1

Distinct(seq, Key(_)) ==
    \A i, j \in 1..Len(seq) : i # j => Key(seq[i]) # Key(seq[j])

UrlKey(u) == u.url
VisitKey(v) == <<v.url_id, v.visited_at>>

\* the batch has pairwise distinct url strings, pairwise distinct
\* (url, visited_at) and every visit references a url of the batch
WellFormed(data) ==
    /\ Distinct(data.urls, UrlKey)
    /\ Distinct(data.visits, VisitKey)
    /\ \A v \in Range(data.visits) : v.url_id \in {u.id : u \in Range(data.urls)}

\* C6: a well-formed batch of n urls and m visits ingested into the empty
\* store with no failing statement leaves n url rows, m visit rows and n
\* metadata rows, all empty and not enriched, and returns no error.
C6_FirstIngestion ==
    [][(/\ IngestStep
        /\ db = EmptyDb
        /\ last'.faults = {} /\ last'.fatal = "none"
        /\ WellFormed(IngestedData))
       => (/\ last'.ok
           /\ last'.stats.errors = << >>
           /\ Len(db'.url) = Len(IngestedData.urls)
           /\ Len(db'.visit) = Len(IngestedData.visits)
           /\ Len(db'.metadata) = Len(IngestedData.urls)
           /\ \A m \in Range(db'.metadata) :
                /\ m.url_id \in UrlIds(db')
                /\ m.summary = None /\ m.keywords = None /\ m.tags = None
                /\ m.topic_cluster = None /\ m.is_enriched = FALSE)]_vars

\* C6 witness: the first call ingested a well-formed batch of 2 urls and 2
\* visits
C6_Witness ==
    /\ last.op = "insert_history_data" /\ last.ok /\ nIngest = 1
    /\ last.faults = {} /\ WellFormed(last.data[1])
    /\ Len(last.data[1].urls) = 2 /\ Len(last.data[1].visits) = 2
    /\ Len(db.url) = 2 /\ Len(db.visit) = 2 /\ Len(db.metadata) = 2

C8_FatalLeavesStore ==
    [][(IngestStep /\ last'.fatal # "none") => (~ last'.ok /\ db' = db)]_vars

\* C8 witness: the commit of a batch with urls and visits failed
C8_Witness ==
    /\ last.op = "insert_history_data" /\ last.fatal = "commit" /\ ~ last.ok
    /\ Len(last.data[1].urls) > 0 /\ Len(last.data[1].visits) > 0
    /\ ~ last.reingest /\ ~ last.refile

\* ------------------------------------------------------------------------
\* Properties of extraction
\* ------------------------------------------------------------------------
\* C10: extract_history probes the schema before it reads any row; when a
\* required table is not found it returns the error with no batch and has
\* read no row.
C10_SchemaCheckFirst ==
    last.op = "extract_history" =>
        /\ Len(last.log) >= 1 /\ last.log[1][1] = "probe"
        /\ \A i, j \in 1..Len(last.log) :
              (last.log[i][1] = "row" /\ last.log[j][1] = "probe") => j < i
        /\ (\E t \in Range(RequiredTables) : ~ table_exists(Files[last.path], t))
             => /\ ~ last.ok /\ last.err = "UnsupportedSchema"
                /\ last.data = << >>
                /\ \A i \in 1..Len(last.log) : last.log[i][1] # "row"

\* C10 witness: extract_history of a file without the history_visits table
\* returned the schema error
C10_Witness ==
    /\ last.op = "extract_history" /\ ~ last.ok
    /\ last.err = "UnsupportedSchema"
    /\ "history_visits" \notin Files[last.path].tables

\* C11: verify_safari_schema returns Ok when the source file holds both
\* history_items and history_visits, and the UnsupportedSchema error naming
\* the first missing table (history_items before history_visits) when one
\* is absent; extract_history fails with UnsupportedSchema exactly then.
C11_VerifySchema ==
    last.op = "extract_history" =>
        LET tables == Files[last.path].tables
            s == verify_safari_schema(Files[last.path])
        IN /\ ("history_items" \in tables /\ "history_visits" \in tables)
                => (s.ok /\ last.err # "UnsupportedSchema")
           /\ "history_items" \notin tables
                => (~ s.ok /\ s.missing = "history_items"
                    /\ last.err = "UnsupportedSchema")
           /\ ("history_items" \in tables /\ "history_visits" \notin tables)
                => (~ s.ok /\ s.missing = "history_visits"
                    /\ last.err = "UnsupportedSchema")

\* the history_items rows of a file that process_url_row accepts
AcceptedItems(file) ==
    {i \in 1..Len(file.items) : process_url_row(file.items[i], 0).ok}

\* the history_visits rows of a file whose history_item is the id of an
\* accepted history_items row
ResolvedVisits(file) ==
    {j \in 1..Len(file.visits) :
        \E i \in AcceptedItems(file) :
            file.items[i].id = file.visits[j].history_item}

\* C12: a visit row whose history_item is not in the id map (no such row,
\* or the row failed processing) gives one warning and no visit and no
\* url; every other row is emitted, and every visit of the batch refers to
\* a url of the same batch.
C12_UnresolvedVisitDropped ==
    last.op = "extract_rows" =>
        LET file == Files[last.path]
            data == last.data[1]
        IN /\ Len(data.urls) = Cardinality(AcceptedItems(file))
           /\ Len(data.visits) = Cardinality(ResolvedVisits(file))
           /\ Len(data.warnings) =
                  (Len(file.items) - Cardinality(AcceptedItems(file)))
                    + (Len(file.visits) - Cardinality(ResolvedVisits(file)))
           /\ \A v \in Range(data.visits) :
                  \E u \in Range(data.urls) : u.id = v.url_id
           /\ \A j \in ResolvedVisits(file) :
                  \E v \in Range(data.visits), u \in Range(data.urls),
                     i \in AcceptedItems(file) :
                      /\ file.items[i].id = file.visits[j].history_item
                      /\ u.url = file.items[i].url /\ u.id = v.url_id
                      /\ v.visited_at = file.visits[j].visit_time
                                          + MAC_TO_UNIX_EPOCH_OFFSET

\* C12 witness: the batch of the file with a visit of a missing row and a
\* visit of a row that failed processing: one url, its two visits, three
\* warnings
C12_Witness ==
    /\ last.op = "extract_rows" /\ last.path = "dangling"
    /\ Len(last.data[1].urls) = 1 /\ Len(last.data[1].visits) = 2
    /\ Len(last.data[1].warnings) = 3

\* what extract_history returns for the i-th path of the last
\* parse_history_db call when that path is extracted alone
Alone(i) ==
    extract_history(Files[last.paths[i]], last.paths[i],
                    DeviceAt(last.devices, i), 1)

\* a batch without the freshly minted ids
Content(data) ==
    [source |-> data.source,
     urls |-> [i \in 1..Len(data.urls) |-> data.urls[i].url],
     visits |-> [j \in 1..Len(data.visits) |-> data.visits[j].visited_at],
     warnings |-> data.warnings]

C14_MacToUtcRoundTrip ==
    last.op = "mac_to_utc" =>
        /\ last.ok => /\ last.unix = last.mac + 978307200
                      /\ last.unix - 978307200 = last.mac
        /\ last.mac = 1000000000 => (last.ok /\ last.unix = 1978307200)

\* C14 witness: the timestamp of test_mac_to_utc_conversion was converted
C14_Witness ==
    last.op = "mac_to_utc" /\ last.mac = 1000000000 /\ last.ok

\* ------------------------------------------------------------------------
\* search_history
\* ------------------------------------------------------------------------
\* url row u of store d satisfies the predicates of params: the text is in
\* its url, title or metadata, its domain is the given one, and one of its
\* visits lies within the given dates
Matches(d, u, params) ==
    /\ IsSome(params.query) =>
          \/ Like(u.url, params.query[1])
          \/ Like(u.title, params.query[1])
          \/ \E m \in Range(d.metadata) :
                /\ m.url_id = u.id
                /\ \/ Like(m.summary, params.query[1])
                   \/ Like(m.keywords, params.query[1])
                   \/ Like(m.tags, params.query[1])
    /\ IsSome(params.domain) => u.domain = params.domain[1]
    /\ (IsSome(params.start_date) \/ IsSome(params.end_date)) =>
          \E v \in Range(d.visit) :
             /\ v.url_id = u.id
             /\ IsSome(params.start_date) => params.start_date[1] <= v.visited_at
             /\ IsSome(params.end_date) => v.visited_at <= params.end_date[1]

MatchingUrls(d, params) == {u \in Range(d.url) : Matches(d, u, params)}

\* the results are in the order of their most recent visit, latest first,
\* those without a visit last
LatestFirst(urls) ==
    \A i, j \in 1..Len(urls) :
       i < j => ~ OrderedBefore(urls[j], urls[i])

\* C15: total_count is at least the number of rows returned; it is the
\* number of urls matching the predicates when a limit or an offset is
\* given, and the number of rows returned when neither is given.
C15_TotalCount ==
    last.op = "search_history" =>
       /\ last.ok
       /\ last.total_count >= Len(last.urls)
       /\ (IsSome(last.params.limit) \/ IsSome(last.params.offset)) =>
             last.total_count = Cardinality(MatchingUrls(db, last.params))
       /\ (~ IsSome(last.params.limit) /\ ~ IsSome(last.params.offset)) =>
             last.total_count = Len(last.urls)

\* C16: with a limit only, an offset only, both or neither, search_history
\* succeeds and returns the grouped rows, latest visit first, without the
\* first offset rows and with at most limit rows.
C16_EveryPageSucceeds ==
    last.op = "search_history" =>
       /\ last.ok
       /\ \E s \in OrderByLastVisitDesc(GroupByUrl(db, last.params)) :
             last.urls = SearchResultsOf(db, LimitOffset(s, last.params))

\* C17: search_history returns, each once, exactly the urls that satisfy
\* all the predicates given (with a page: only such urls), latest visit
\* first.
C17_SearchPrecise ==
    (last.op = "search_history" /\ last.ok) =>
       /\ \A i, j \in 1..Len(last.urls) :
             last.urls[i].url = last.urls[j].url => i = j
       /\ {r.url : r \in Range(last.urls)} \subseteq MatchingUrls(db, last.params)
       /\ (~ IsSome(last.params.limit) /\ ~ IsSome(last.params.offset)) =>
             {r.url : r \in Range(last.urls)} = MatchingUrls(db, last.params)
       /\ LatestFirst(last.urls)

\* a search by domain and both dates over a store where some url passes and
\* another url of the store does not, and one without a page that returned
\* two urls
C17_Witness ==
    /\ last.op = "search_history"
    /\ last.ok
    /\ IsSome(last.params.start_date)
    /\ IsSome(last.params.end_date)
    /\ IsSome(last.params.domain)
    /\ Len(last.urls) = 1
    /\ Len(db.url) >= 2
    /\ Len(db.visit) >= 2

\* ------------------------------------------------------------------------
\* get_timeline_data
\* ------------------------------------------------------------------------
\* visit v of store d passes the start, end and domain filters of params
VisitMatches(d, v, params) ==
    /\ IsSome(params.start_date) => params.start_date[1] <= v.visited_at
    /\ IsSome(params.end_date) => v.visited_at <= params.end_date[1]
    /\ IsSome(params.domain) =>
          \E u \in Range(d.url) : u.id = v.url_id /\ u.domain = params.domain[1]

MatchingVisits(d, params) == {v \in Range(d.visit) : VisitMatches(d, v, params)}

\* the sum of the counts of the items
RECURSIVE SumCounts(_)
SumCounts(items) ==
    IF items = << >> THEN 0 ELSE Head(items).count + SumCounts(Tail(items))

\* no two items are the bucket of the same hour or of the same day
DistinctBuckets(items) ==
    \A i, j \in 1..Len(items) :
       (IF items[i].type = "Hourly" THEN items[i].hour = items[j].hour
        ELSE DayOf(items[i].date) = DayOf(items[j].date)) => i = j

\* C18: grouped by hour or by day, with any start, end and domain, the
\* counts of the buckets returned add up to the number of stored visits
\* that pass the same filter, each bucket being returned once.
C18_BucketsSumToVisits ==
    (last.op = "get_timeline_data" /\ last.params.group_by \in {"Hour", "Day"}) =>
       /\ SumCounts(last.items) = Cardinality(MatchingVisits(db, last.params))
       /\ DistinctBuckets(last.items)

\* a request by hour or day with an end date that leaves a stored visit out
\* and keeps another
C18_Witness ==
    /\ last.op = "get_timeline_data"
    /\ last.params.group_by \in {"Hour", "Day"}
    /\ IsSome(last.params.end_date)
    /\ Len(last.items) >= 1
    /\ Len(db.visit) > SumCounts(last.items)

\* visit v of store d falls in the bucket of item
InBucket(d, v, item) ==
    IF item.type = "Hourly" THEN HourOf(v.visited_at) = item.hour
    ELSE IF item.type = "Daily" THEN DayOf(v.visited_at) = DayOf(item.date)
    ELSE \E u \in Range(d.url) : u.id = v.url_id /\ u.domain = item.domain

\* the visits of url_id a sample of item is to be computed over
SampleVisits(d, item, url_id, params) ==
    {v \in MatchingVisits(d, params) : v.url_id = url_id /\ InBucket(d, v, item)}

\* C19: every bucket, of any grouping, has at most 5 sample urls, in the
\* order of their visit count, highest first, and the visit_count and
\* last_visit of each sample are those of the visits of the url that pass
\* the start, end and domain filters and fall in the bucket.
C19_SamplesWithinFilter ==
    last.op = "get_timeline_data" =>
       \A k \in 1..Len(last.items) :
          /\ IsSome(last.items[k].urls)
          /\ Len(last.items[k].urls[1]) <= SampleLimit
          /\ \A i, j \in 1..Len(last.items[k].urls[1]) :
                i < j => last.items[k].urls[1][i].visit_count
                            >= last.items[k].urls[1][j].visit_count
          /\ \A x \in Range(last.items[k].urls[1]) :
                /\ x.visit_count =
                      Cardinality(SampleVisits(db, last.items[k], x.url.id,
                                               last.params))
                /\ x.last_visit =
                      MaxVisitedAt(SampleVisits(db, last.items[k], x.url.id,
                                                last.params))

\* ------------------------------------------------------------------------
\* Visits to a url the store already knows
\* ------------------------------------------------------------------------
\* the url string was ingested before from a file other than that of data
KnownFromOtherFile(url, data) ==
    /\ url \in UrlStrings(db)
    /\ \E c \in ingested :
          /\ c.source.file_path # data.source.file_path
          /\ url \in {x.url : x \in Range(c.urls)}

\* after the step, the store has the visit v of data on its row of url
AttachedToExistingRow(url, v, data) ==
    \E row \in Range(db.url), r \in Range(db'.visit) :
       /\ row.url = url
       /\ r.url_id = row.id
       /\ r.visited_at = v.visited_at
       /\ r.source_file = data.source.file_path

\* C20: when a batch of file B is ingested, without a failing statement,
\* into a store that holds a url string ingested before from another file,
\* every visit of the batch to that url string is in the store afterwards,
\* on the row the store already had for it, with source_file B.
C20_KnownUrlVisitsKept ==
    [][(/\ IngestStep
        /\ last'.faults = {}
        /\ last'.fatal = "none")
       => \A u \in Range(IngestedData.urls), v \in Range(IngestedData.visits) :
             (v.url_id = u.id /\ KnownFromOtherFile(u.url, IngestedData))
                => AttachedToExistingRow(u.url, v, IngestedData)]_vars

\* ------------------------------------------------------------------------
\* Merging a url the store already has
\* ------------------------------------------------------------------------
\* C21: when a url of the batch has a url string that is in the store,
\* merging it changes at most last_seen of that row: the id, url,
\* first_seen, title and domain of the row stay as they were and the store
\* gets no second row with that url string.
C21_MergeTouchesLastSeenOnly ==
    [][IngestStep =>
         \A i \in 1..Len(db.url) :
            (\E u \in Range(IngestedData.urls) : u.url = db.url[i].url) =>
               /\ Len(db'.url) >= i
               /\ db'.url[i] = [db.url[i] EXCEPT !.last_seen = db'.url[i].last_seen]
               /\ Cardinality({j \in 1..Len(db'.url) :
                                 db'.url[j].url = db.url[i].url}) = 1]_vars

\* an ingestion that merged a url into the row of an earlier extraction:
\* the row has the last_seen of the batch and another id and first_seen
C21_Witness ==
    /\ last.op = "insert_history_data"
    /\ last.ok
    /\ \E u \in Range(last.data[1].urls), r \in Range(db.url) :
          /\ r.url = u.url
          /\ r.id # u.id
          /\ r.first_seen # u.first_seen
          /\ r.last_seen = u.last_seen

InCommand(p) == proc[p].pc \notin {"idle", "lock_state"}

\* C23: once an operation has returned, with success, with record errors
\* or with a fatal error, its thread holds neither the lock of the store
\* nor an open transaction: a transaction is open only inside one
\* insert_history_data call, and when no command is running both mutexes
\* are free for the next one.
C23_NothingHeldAfterReturn ==
    /\ \A p \in Procs : ~ InCommand(p) => state_guard # p
    /\ \A p \in Procs : ~ InStore(p) => conn_guard # p
    /\ tx # << >> => \E p \in Procs : proc[p].pc \in {"urls", "visits", "commit"}
    /\ (\A p \in Procs : ~ InCommand(p)) =>
          (state_guard = Free /\ conn_guard = Free /\ tx = << >>)

\* a command has returned a fatal error and another thread has taken the
\* locks after it and is inside its transaction
C23_Witness ==
    \E p, q \in Procs :
       /\ proc[p].pc = "idle" /\ proc[p].ret = "err"
       /\ proc[q].pc = "urls" /\ tx # << >>
       /\ state_guard = q /\ conn_guard = q

\* ------------------------------------------------------------------------
\* Failures after the schema check
\* ------------------------------------------------------------------------
\* C24: for a file that has both tables, so that the schema check is
\* passed, extract_history returns a batch whatever fails afterwards: a
\* failure is a warning of the batch and never the Err of the call.
C24_OnlyWarningsAfterCheck ==
    (/\ last.op = "extract_after_check"
     /\ Range(RequiredTables) \subseteq Files[last.path].tables)
       => (last.ok /\ last.data # << >>)

\* ------------------------------------------------------------------------
\* The canonical url of a history_items row
\* ------------------------------------------------------------------------
\* url u of a batch is the canonical url of the history_items row item
CanonicalOf(u, item) ==
    /\ u.url = item.url
    /\ u.title = item.title
    /\ u.domain = item.domain
    /\ u.first_seen = item.visit_time + MAC_TO_UNIX_EPOCH_OFFSET
    /\ u.last_seen = item.last_visited_time + MAC_TO_UNIX_EPOCH_OFFSET

\* C25: every url of an extracted batch carries the url, title and domain
\* of a processed history_items row of the file, the normalized visit_time
\* of the row as first_seen and its normalized last_visited_time as
\* last_seen, under an id of its own.
C25_CanonicalUrlOfRow ==
    last.op = "extract_rows" =>
       /\ \A u \in Range(last.data[1].urls) :
             \E i \in AcceptedItems(Files[last.path]) :
                CanonicalOf(u, Files[last.path].items[i])
       /\ \A j, k \in 1..Len(last.data[1].urls) :
             last.data[1].urls[j].id = last.data[1].urls[k].id => j = k

\* ------------------------------------------------------------------------
\* mac_to_utc over the whole range of i64
\* ------------------------------------------------------------------------
\* t + 978307200 is greater than i64::MAX
SumOutOfRange(t) ==
    Less64(WrappingAdd64(I64_MAX, FromInt(-MAC_TO_UNIX_EPOCH_OFFSET)), t)

\* C26: for every i64 t, mac_to_utc returns the instant at Unix time
\* t + 978307200 or a Parse error; it returns the Parse error when the sum
\* is no instant chrono has, also when it does not fit an i64, and it
\* neither returns an instant of a wrapped sum nor panics.
C26_MacToUtcTotal ==
    last.op = "mac_to_utc_i64" =>
       /\ last.outcome \in {"ok", "parse_error"}
       /\ last.outcome = "ok" =>
             /\ ~ SumOutOfRange(last.mac64)
             /\ last.unix64 =
                   WrappingAdd64(last.mac64, FromInt(MAC_TO_UNIX_EPOCH_OFFSET))
       /\ (\/ SumOutOfRange(last.mac64)
           \/ ~ timestamp_opt_single64(
                   WrappingAdd64(last.mac64, FromInt(MAC_TO_UNIX_EPOCH_OFFSET))))
             => last.outcome = "parse_error"

\* ------------------------------------------------------------------------
\* A history_items row that fails processing
\* ------------------------------------------------------------------------
\* the row has a field that cannot be read: url and domain are read as
\* String and are NULL here
Malformed(item) == item.url = None \/ item.domain = None

\* how often w is among the warnings
TimesWarned(warnings, w) ==
    Cardinality({k \in 1..Len(warnings) : warnings[k] = w})

\* the rows of items from the i-th on that are not malformed, in order
RECURSIVE WellFormedRows(_, _)
WellFormedRows(items, i) ==
    IF i > Len(items) THEN << >>
    ELSE IF Malformed(items[i]) THEN WellFormedRows(items, i + 1)
    ELSE << items[i] >> \o WellFormedRows(items, i + 1)

C28_CountersAreRowsAdded ==
    [][(IngestStep /\ last'.ok) =>
          /\ last'.stats.urls_inserted = Len(db'.url) - Len(db.url)
          /\ last'.stats.visits_inserted = Len(db'.visit) - Len(db.visit)
          /\ last'.stats.metadata_inserted
                = Len(db'.metadata) - Len(db.metadata)]_vars

\* the row of store d for the url of record m, << >> if there is none
MetadataRowOf(d, m) ==
    IF \E r \in Range(d.metadata) : r.url_id = m.url_id
    THEN << CHOOSE r \in Range(d.metadata) : r.url_id = m.url_id >>
    ELSE << >>

\* C29: insert_metadata called with a record that is not enriched leaves an
\* existing metadata row of that url_id unchanged in every field; a record
\* that is enriched overwrites summary, keywords, tags, topic_cluster and
\* is_enriched of that row; no other row changes and no row is added.
C29_OnlyEnrichedOverwrites ==
    [][(last'.op = "insert_metadata" /\ MetadataRowOf(db, last'.metadata) # << >>)
          => LET m == last'.metadata
                 old == MetadataRowOf(db, m)[1]
             IN  /\ db'.url = db.url /\ db'.visit = db.visit
                 /\ Len(db'.metadata) = Len(db.metadata)
                 /\ \A i \in 1..Len(db.metadata) :
                       db.metadata[i].url_id # m.url_id
                          => db'.metadata[i] = db.metadata[i]
                 /\ (~ m.is_enriched \/ ~ last'.ok)
                       => MetadataRowOf(db', m) = << old >>
                 /\ (m.is_enriched /\ last'.ok)
                       => MetadataRowOf(db', m) =
                            << [old EXCEPT !.summary = m.summary,
                                           !.keywords = m.keywords,
                                           !.tags = m.tags,
                                           !.topic_cluster = m.topic_cluster,
                                           !.is_enriched = TRUE] >>]_vars

\* a record that is not enriched met an enriched row with other texts, and
\* the row is still there
C29_Witness ==
    /\ last.op = "insert_metadata" /\ last.ok
    /\ ~ last.metadata.is_enriched
    /\ last.metadata.summary = "s2"
    /\ \E r \in Range(db.metadata) :
          r.url_id = last.metadata.url_id /\ r.is_enriched /\ r.summary = "s1"

\* the matching visits of store d in hour h of the day
VisitsOfHour(d, params, h) ==
    {v \in MatchingVisits(d, params) : HourOf(v.visited_at) = h}

\* C30: grouped by hour, the items are one bucket for each hour of the day
\* (0 to 23) that has a matching visit, in the order of their counts,
\* highest first, buckets of equal count in the order of their hours, and
\* the timestamp of a bucket is the earliest visited_at of the matching
\* visits of its hour.
C30_HourlyBuckets ==
    (last.op = "get_timeline_data" /\ last.params.group_by = "Hour") =>
       LET items == last.items
       IN  /\ {items[k].hour : k \in 1..Len(items)}
                 = {HourOf(v.visited_at) : v \in MatchingVisits(db, last.params)}
           /\ \A k \in 1..Len(items) : items[k].hour \in 0..23
           /\ \A i, j \in 1..Len(items) :
                 items[i].hour = items[j].hour => i = j
           /\ \A i, j \in 1..Len(items) :
                 i < j => \/ items[i].count > items[j].count
                          \/ /\ items[i].count = items[j].count
                             /\ items[i].hour < items[j].hour
           /\ \A k \in 1..Len(items) :
                 /\ \E v \in VisitsOfHour(db, last.params, items[k].hour) :
                       v.visited_at = items[k].timestamp
                 /\ \A v \in VisitsOfHour(db, last.params, items[k].hour) :
                       items[k].timestamp <= v.visited_at

\* a request by hour answered with three buckets or two: the first has more
\* visits than the second and a later hour, and its timestamp is earlier
\* than another matching visit of its hour
C30_Witness ==
    /\ last.op = "get_timeline_data" /\ last.params.group_by = "Hour"
    /\ Len(last.items) >= 2
    /\ last.items[1].count > last.items[2].count
    /\ last.items[1].hour > last.items[2].hour
    /\ \E v \in VisitsOfHour(db, last.params, last.items[1].hour) :
          v.visited_at > last.items[1].timestamp

====
